---- MODULE Spec2Model ----
(***************************************************************************)
(* Model of the sod-di dependency injector (src/di.js).                    *)
(*                                                                         *)
(* Strings are sequences of one-character strings, so that normalisation,  *)
(* case folding, key prefixing and message joining are computed the way    *)
(* the code computes them.  Every injector is an index into the per-       *)
(* injector closure variables of diFactory.  di.get and di.invoke are      *)
(* mutually recursive operators that thread the mutable part of the heap   *)
(* (the _registers and _importCache of every injector, the errors handed   *)
(* to error callbacks and the log of fn.apply calls) and that return       *)
(* either a value or a thrown error.                                       *)
(***************************************************************************)
EXTENDS Integers, Sequences, FiniteSets, TLC

\* ------------------------------------------------------------------ bounds
MaxDi == 2        \* injectors up to which diFactory and newChild are enabled
MaxStack == 8     \* call depth at which the engine reports a stack overflow
MaxCallbacks == 2 \* wrappers of di.callback the client holds at once
MaxFamily == 3    \* injectors up to which a family grows
MaxLen == 2       \* length up to which raw names are enumerated

\* --------------------------------------------------------------- strings
UpperChars == <<"A", "B", "D", "F", "I", "P", "V", "X">>
LowerChars == <<"a", "b", "d", "f", "i", "p", "v", "x">>
Digits == {"0", "1", "2", "3", "4", "5", "6", "7", "8", "9"}

RECURSIVE IndexOf(_, _, _)
IndexOf(seq, c, from) ==
    IF from > Len(seq) THEN 0
    ELSE IF seq[from] = c THEN from
    ELSE IndexOf(seq, c, from + 1)

IsUpper(c) == IndexOf(UpperChars, c, 1) # 0
IsLower(c) == IndexOf(LowerChars, c, 1) # 0

\* the complement of the character class of limitCharacters (flags ig)
IsAlnum(c) == IsUpper(c) \/ IsLower(c) \/ c \in Digits

LowerChar(c) == IF IsUpper(c) THEN LowerChars[IndexOf(UpperChars, c, 1)] ELSE c

\* a bug: the case of a name is kept
toLowerCaseNot(s) == s

\* String.prototype.toLowerCase
toLowerCase(s) == [k \in 1..Len(s) |-> LowerChar(s[k])]

\* s.replace(limitCharacters, '')
StripLimitCharacters(s) == SelectSeq(s, IsAlnum)

RECURSIVE StripAppendedNumbers(_)
\* s.replace(appendedNumbers, '')
StripAppendedNumbers(s) ==
    IF s # <<>> /\ Head(s) \in Digits THEN StripAppendedNumbers(Tail(s)) ELSE s

\* a bug: the leading digits are removed before the other characters
SanitizeDigitsFirst(raw) == toLowerCase(StripLimitCharacters(StripAppendedNumbers(raw)))

\* String(name).replace(limitCharacters, '').replace(appendedNumbers, '').toLowerCase()
Sanitize(raw) == toLowerCase(StripAppendedNumbers(StripLimitCharacters(raw)))

RECURSIVE Join(_, _)
\* Array.prototype.join
Join(list, sep) ==
    IF list = <<>> THEN <<>>
    ELSE IF Len(list) = 1 THEN list[1]
    ELSE list[1] \o sep \o Join(Tail(list), sep)

\* ---------------------------------------------------------------- values
Null == [t |-> "null"]
Undefined == [t |-> "undefined"]
False == [t |-> "false"]
Num(n) == [t |-> "number", n |-> n]
DiRef(i) == [t |-> "di", id |-> i]
\* a function registered as a plain value
Fn(f) == [t |-> "function", fn |-> f]
\* the wrapper di.callback(fn) of injector i, tagged with factoryKey
FactoryCallback(f, i) == [t |-> "factory", fn |-> f, di |-> i]
\* what a function body returns: a value determined by the arguments it got
Returned(f, args) == [t |-> "returned", fn |-> f, args |-> args]

IsFunction(v) == v.t \in {"function", "factory"}

\* error codes of DependencyInjectionError
COULD_NOT_REQUIRE == 101
\* a bug: the code of another error
NotAFunctionWrong == COULD_NOT_REQUIRE
NOT_A_FUNCTION == 102
DEPENDENCY_NOT_FOUND == 103

\* ----------------------------------------------------------- partial maps
Has(m, k) == k \in DOMAIN m
Put(m, k, v) == [x \in (DOMAIN m) \cup {k} |-> IF x = k THEN v ELSE m[x]]
EmptyMap == [x \in {} |-> Null]

\* a JS string as an element of a mixed array
Str(s) == [t |-> "string", s |-> s]
\* ToBoolean, on the values that reach a truthiness test
Truthy(v) ==
    CASE v.t = "string" -> v.s # <<>>
      [] v.t \in {"null", "undefined", "false"} -> FALSE
      [] OTHER -> TRUE

\* ------------------------------------------------------------- functions
\* The functions a client hands to the injector.  params is what
\* getParameterNames(fn) returns; body says what fn returns when applied.
FnTable == [
    fV  |-> [params |-> << <<"v">> >>, body |-> "returned"],
    fXV |-> [params |-> << <<"x">>, <<"V">> >>, body |-> "returned"],
    fXDV |-> [params |-> << <<"x">>, <<"D", "i">>, <<"V">> >>, body |-> "returned"],
    f0  |-> [params |-> << >>, body |-> "null"] ]
FnIds == DOMAIN FnTable

getParameterNames(f) == FnTable[f].params

\* fn.apply(fn, injections)
Apply(f, injections) ==
    IF FnTable[f].body = "null" THEN Null ELSE Returned(f, injections)

\* ------------------------------------------------------------------ state
VARIABLES
    diName,       \* diName[i]: sanitized injector name
    registers,    \* _registers of injector i: key -> value
    imports,      \* _imports of injector i: sequence of injectors
    importCache,  \* _importCache of injector i: key -> value
    public,       \* _public of injector i: set of keys
    names,        \* _names of injector i: set of keys
    importsArg,   \* the imports argument injector i was constructed with
    callbacks,    \* the wrappers di.callback has returned to the client
    last          \* the last call made by the client and its outcome

vars == <<diName, registers, imports, importCache, public, names, importsArg,
          callbacks, last>>

\* the injectors created so far
Dis == 1..Len(diName)

\* ---------------------------------------------------------------- errors
NoError == [code |-> 0, di |-> <<>>, cause |-> "", detail |-> <<>>]
\* new DiError(code, diName, message): detail is the quoted part of the message
DiError(code, name, cause, detail) ==
    [code |-> code, di |-> name, cause |-> cause, detail |-> detail]
\* the RangeError the engine raises when the call stack is exhausted
RangeError == [code |-> -1, di |-> <<>>, cause |-> "Maximum call stack size exceeded", detail |-> <<>>]

\* results of the heap-threading operators
Ok(h, v) == [h |-> h, thrown |-> FALSE, val |-> v, err |-> NoError]
Throw(h, e) == [h |-> h, thrown |-> TRUE, val |-> Undefined, err |-> e]

\* the kinds of value an onError argument can be
OnErrorKinds == {"undefined", "function", "array"}

handleError(h, errorHandler, error) ==
    IF errorHandler # "function" THEN Throw(h, error)
    ELSE Ok([h EXCEPT !.errs = Append(@, error)], Undefined)

\* a bug: every parameter is listed, resolved or not
getMissingDependenciesAll(args, dependencies) == Join(args, <<",", " ">>)

getMissingDependencies(args, dependencies) ==
    LET mapped == [k \in 1..Len(args) |->
                      IF dependencies[k] = Null THEN Str(args[k]) ELSE Null]
        removed == SelectSeq(mapped, Truthy)
    IN  Join([k \in 1..Len(removed) |-> removed[k].s], <<",", " ">>)

\* the custom argument of invoke: falsy, or an object with own properties
NoCustom == [truthy |-> FALSE, own |-> EmptyMap]
Custom(m) == [truthy |-> TRUE, own |-> m]

\* ---------------------------------------------------------------- engine
RECURSIVE DiGet(_, _, _, _, _, _)
RECURSIVE FromImports(_, _, _, _, _, _)
RECURSIVE DiInvoke(_, _, _, _, _, _)
RECURSIVE Injections(_, _, _, _, _, _, _)

\* a bug: the handler passed in as __di_onError is ignored
CallCallbackOwnHandler(h, i, fn, custom, onError, optOnError, depth) ==
    DiInvoke(h, i, fn, custom, onError, depth)

\* the wrapper returned by di.callback(fn) of injector i, called with opt
CallCallback(h, i, fn, custom, onError, optOnError, depth) ==
    DiInvoke(h, i, fn, custom,
             IF optOnError # "undefined" THEN optOnError ELSE onError, depth)

\* a bug: the factory's result is returned but not stored
MemoizeNot(r, i, key) == Ok(r.h, r.val)

\* a bug: a factory that returns null leaves no entry
MemoizeDropNull(r, i, key) ==
    IF r.val = Null
    THEN Ok([r.h EXCEPT !.reg[i] = [k \in DOMAIN @ \ {key} |-> @[k]]], r.val)
    ELSE Ok([r.h EXCEPT !.reg[i] = Put(@, key, r.val)], r.val)

\* _registers[key] = <result of the factory>; return _registers[key]
Memoize(r, i, key) == Ok([r.h EXCEPT !.reg[i] = Put(@, key, r.val)], r.val)

\* di.get(name, publicOnly, onError) of injector i
DiGet(h, i, name, publicOnly, onError, depth) ==
    IF depth > MaxStack THEN Throw(h, RangeError)
    ELSE
    LET key == toLowerCase(name) IN
    IF Has(h.reg[i], key) /\ (publicOnly # TRUE \/ key \in public[i])
    THEN IF h.reg[i][key].t = "factory"
         THEN LET r == CallCallback(h, h.reg[i][key].di, Fn(h.reg[i][key].fn),
                                    NoCustom, "undefined", onError, depth + 1)
              IN  IF r.thrown THEN r ELSE Memoize(r, i, key)
         ELSE Ok(h, h.reg[i][key])
    ELSE IF Has(h.cache[i], key) THEN Ok(h, h.cache[i][key])
    ELSE FromImports(h, i, key, onError, 1, depth)

\* a bug: the imports are asked without publicOnly
FromImportsPrivate(h, i, key, onError, index, depth) ==
    IF index > Len(imports[i]) THEN Ok(h, Null)
    ELSE LET r == DiGet(h, imports[i][index], key, FALSE, onError, depth + 1)
         IN  IF r.thrown THEN r
             ELSE IF r.val # Null
                  THEN Ok([r.h EXCEPT !.cache[i] = Put(@, key, r.val)], r.val)
                  ELSE FromImports(r.h, i, key, onError, index + 1, depth)

\* a bug: what an import yields is stored in the registry, not in the cache
FromImportsIntoRegistry(h, i, key, onError, index, depth) ==
    IF index > Len(imports[i]) THEN Ok(h, Null)
    ELSE LET r == DiGet(h, imports[i][index], key, TRUE, onError, depth + 1)
         IN  IF r.thrown THEN r
             ELSE IF r.val # Null
                  THEN Ok([r.h EXCEPT !.reg[i] = Put(@, key, r.val)], r.val)
                  ELSE FromImports(r.h, i, key, onError, index + 1, depth)

\* a bug: a lookup that finds nothing is cached as null
FromImportsCacheNull(h, i, key, onError, index, depth) ==
    IF index > Len(imports[i]) THEN Ok([h EXCEPT !.cache[i] = Put(@, key, Null)], Null)
    ELSE LET r == DiGet(h, imports[i][index], key, TRUE, onError, depth + 1)
         IN  IF r.thrown THEN r
             ELSE IF r.val # Null
                  THEN Ok([r.h EXCEPT !.cache[i] = Put(@, key, r.val)], r.val)
                  ELSE FromImports(r.h, i, key, onError, index + 1, depth)

\* the loop over _imports in di.get
FromImports(h, i, key, onError, index, depth) ==
    IF index > Len(imports[i]) THEN Ok(h, Null)
    ELSE LET r == DiGet(h, imports[i][index], key, TRUE, onError, depth + 1)
         IN  IF r.thrown THEN r
             ELSE IF r.val # Null
                  THEN Ok([r.h EXCEPT !.cache[i] = Put(@, key, r.val)], r.val)
                  ELSE FromImports(r.h, i, key, onError, index + 1, depth)

\* a bug: a null override is passed on as null
CustomValueNot(v) == v

\* custom[arg] === null ? undefined : custom[arg]
CustomValue(v) == IF v = Null THEN Undefined ELSE v

\* args.map(...) in di(): the injections for args[index..]
Injections(h, i, args, custom, index, acc, depth) ==
    IF index > Len(args) THEN Ok(h, acc)
    ELSE IF custom.truthy /\ Has(custom.own, args[index])
         THEN Injections(h, i, args, custom, index + 1,
                         Append(acc, CustomValue(custom.own[args[index]])), depth)
         ELSE LET r == IF custom.truthy
                       THEN DiGet(h, i, args[index], FALSE, "undefined", depth + 1)
                       ELSE DiGet(h, i, args[index], FALSE, "array", depth + 1)
              IN  IF r.thrown THEN r
                  ELSE Injections(r.h, i, args, custom, index + 1,
                                  Append(acc, r.val), depth)

\* a bug: fn.call(fn, injections), which passes the array as one argument
ApplyFnCall(h, f, injections, depth) ==
    Ok([h EXCEPT !.log = Append(@, [fn |-> f, args |-> <<injections>>, depth |-> depth])],
       Apply(f, <<injections>>))

\* return fn.apply(fn, injections), logged as the call of f at this depth
ApplyFn(h, f, injections, depth) ==
    Ok([h EXCEPT !.log = Append(@, [fn |-> f, args |-> injections, depth |-> depth])],
       Apply(f, injections))

\* di(fn, custom, onError) of injector i
DiInvoke(h, i, fn, custom, onError, depth) ==
    IF depth > MaxStack THEN Throw(h, RangeError)
    ELSE IF ~IsFunction(fn)
    THEN LET e == handleError(h, onError,
                    DiError(NOT_A_FUNCTION, diName[i], "fn must be typeof function", <<>>))
         IN  IF e.thrown THEN e ELSE Ok(e.h, Null)
    ELSE
    LET args == getParameterNames(fn.fn)
        inj  == Injections(h, i, args, custom, 1, <<>>, depth)
    IN  IF inj.thrown THEN inj
        ELSE IF \E k \in 1..Len(inj.val) : inj.val[k] = Null
        THEN LET e == handleError(inj.h, onError,
                        DiError(DEPENDENCY_NOT_FOUND, diName[i], "could not inject",
                                getMissingDependencies(args, inj.val)))
             IN  IF e.thrown THEN e ELSE Ok(e.h, Null)
        ELSE ApplyFn(inj.h, fn.fn, inj.val, depth)

\* a bug: a require that is content with null
DiRequireAsGet(h, i, name, onError) == DiGet(h, i, name, FALSE, onError, 1)

\* di.require(name, onError) of injector i
DiRequire(h, i, name, onError) ==
    LET r == DiGet(h, i, name, FALSE, onError, 1)
    IN  IF r.thrown THEN r
        ELSE IF r.val = Null
        THEN LET e == handleError(r.h, onError,
                        DiError(DEPENDENCY_NOT_FOUND, diName[i],
                                "required, but not registered", name))
             IN  IF e.thrown THEN e ELSE Ok(e.h, Null)
        ELSE r

\* the heap a client call starts from
Heap == [reg |-> registers, cache |-> importCache, errs |-> <<>>, log |-> <<>>]

\* ------------------------------------------------------------ client calls
\* what the client passed to the last call
Call(op, i, name, arg, custom, publicOnly, onError) ==
    [op |-> op, di |-> i, name |-> name, arg |-> arg, custom |-> custom,
     publicOnly |-> publicOnly, onError |-> onError]

\* the last call and what the client observed: the returned value or the
\* thrown error, the errors its error callback received, the fn.apply calls
Observed(call, r) ==
    [call |-> call, thrown |-> r.thrown, ret |-> r.val, err |-> r.err,
     errs |-> r.h.errs, log |-> r.h.log]

\* the outcome of a call that returns v without entering the engine
Plain(v) == [h |-> [errs |-> <<>>, log |-> <<>>], thrown |-> FALSE, val |-> v,
             err |-> NoError]

NoCall == Observed(Call("none", 0, <<>>, Undefined, NoCustom, FALSE, "undefined"),
                   Plain(Undefined))

InSeq(seq, x) == \E k \in 1..Len(seq) : seq[k] = x

RECURSIVE ImportEach(_, _, _, _, _)

\* a bug: an injector already in the list is pushed again
ImportEachAgain(cur, list, self, dnames, index) ==
    IF index > Len(list) THEN cur
    ELSE IF dnames[list[index]] # <<>> /\ list[index] # self
         THEN ImportEach(Append(cur, list[index]), list, self, dnames, index + 1)
         ELSE ImportEach(cur, list, self, dnames, index + 1)

\* the loop of di.import: the import list after importing list[index..]
ImportEach(cur, list, self, dnames, index) ==
    IF index > Len(list) THEN cur
    ELSE IF dnames[list[index]] # <<>> /\ ~InSeq(cur, list[index]) /\ list[index] # self
         THEN ImportEach(Append(cur, list[index]), list, self, dnames, index + 1)
         ELSE ImportEach(cur, list, self, dnames, index + 1)

\* the two keys of a dependency of injector i: name and <di-name>name
BareKey(name) == Sanitize(name)
PrefixedKey(dn, name) == dn \o Sanitize(name)


\* a bug: the value is stored under the bare key only
SetValueBare(reg, dn, name, value) == Put(reg, BareKey(name), value)

\* a bug: the prefixed key keeps the entry it already holds
SetValueKeep(reg, dn, name, value) ==
    Put(IF Has(reg, PrefixedKey(dn, name)) THEN reg
        ELSE Put(reg, PrefixedKey(dn, name), value),
        BareKey(name), value)

\* Dependency.prototype.value on the registers of one injector
SetValue(reg, dn, name, value) ==
    Put(Put(reg, PrefixedKey(dn, name), value), BareKey(name), value)

\* the body of diFactory(name, imps): a new injector
Create(name, imps, op, parent) ==
    LET i == Len(diName) + 1
        dn == Sanitize(name)
    IN  /\ diName' = Append(diName, dn)
        /\ imports' = Append(imports, ImportEach(<<>>, imps, i, diName, 1))
        /\ importCache' = Append(importCache, EmptyMap)
        /\ registers' = Append(registers, SetValue(EmptyMap, dn, <<"d", "i">>, DiRef(i)))
        /\ names' = Append(names, {BareKey(<<"d", "i">>)})
        /\ public' = Append(public, {})
        /\ importsArg' = Append(importsArg, imps)
        /\ callbacks' = callbacks
        /\ last' = Observed(Call(op, parent, name, DiRef(i), NoCustom, FALSE, "undefined"),
                            Plain(DiRef(i)))

\* diFactory(name, imps) while fewer than MaxDi injectors exist
Construct(name, imps, op, parent) == Len(diName) < MaxDi /\ Create(name, imps, op, parent)

\* diFactory(name, imps)
DiFactory(name, imps) == Construct(name, imps, "diFactory", 0)

\* di.newChild(name, extra) of injector p
NewChild(p, name, extra) == Construct(name, <<p>> \o extra, "newChild", p)

\* a bug: the import cache survives an import that appends
ImportKeepCache(i, list) ==
    /\ imports' = [imports EXCEPT ![i] = ImportEach(@, list, i, diName, 1)]
    /\ last' = Observed(Call("import", i, <<>>, [t |-> "array", items |-> list],
                             NoCustom, FALSE, "undefined"),
                        Plain(DiRef(i)))
    /\ UNCHANGED <<diName, registers, importCache, public, names, importsArg, callbacks>>

\* di.import(list) of injector i
Import(i, list) ==
    /\ imports' = [imports EXCEPT ![i] = ImportEach(@, list, i, diName, 1)]
    /\ importCache' = [importCache EXCEPT
                          ![i] = IF imports'[i] # imports[i] THEN EmptyMap ELSE @]
    /\ last' = Observed(Call("import", i, <<>>, [t |-> "array", items |-> list],
                             NoCustom, FALSE, "undefined"),
                        Plain(DiRef(i)))
    /\ UNCHANGED <<diName, registers, public, names, importsArg, callbacks>>

\* a bug: a registration makes the name private again
RegisterValuePrivate(i, name, value) ==
    /\ registers' = [registers EXCEPT ![i] = SetValue(@, diName[i], name, value)]
    /\ names' = [names EXCEPT ![i] = @ \cup {BareKey(name)}]
    /\ public' = [public EXCEPT
                     ![i] = @ \ {BareKey(name), PrefixedKey(diName[i], name)}]
    /\ last' = Observed(Call("value", i, name, value, NoCustom, FALSE, "undefined"),
                        Plain(Undefined))
    /\ UNCHANGED <<diName, imports, importCache, importsArg, callbacks>>

\* di.register(name).value(value) of injector i
RegisterValue(i, name, value) ==
    /\ registers' = [registers EXCEPT ![i] = SetValue(@, diName[i], name, value)]
    /\ names' = [names EXCEPT ![i] = @ \cup {BareKey(name)}]
    /\ last' = Observed(Call("value", i, name, value, NoCustom, FALSE, "undefined"),
                        Plain(Undefined))
    /\ UNCHANGED <<diName, imports, importCache, public, importsArg, callbacks>>

\* di.register(name).factory(fn) of injector i, fn a function
RegisterFactory(i, name, f) ==
    /\ registers' = [registers EXCEPT
                        ![i] = SetValue(@, diName[i], name, FactoryCallback(f, i))]
    /\ names' = [names EXCEPT ![i] = @ \cup {BareKey(name)}]
    /\ last' = Observed(Call("factory", i, name, Fn(f), NoCustom, FALSE, "undefined"),
                        Plain(Undefined))
    /\ UNCHANGED <<diName, imports, importCache, public, importsArg, callbacks>>

\* di.register(name).public() of injector i
RegisterPublic(i, name) ==
    /\ public' = [public EXCEPT
                     ![i] = @ \cup {BareKey(name), PrefixedKey(diName[i], name)}]
    /\ last' = Observed(Call("public", i, name, Undefined, NoCustom, FALSE, "undefined"),
                        Plain(Undefined))
    /\ UNCHANGED <<diName, registers, imports, importCache, names, importsArg, callbacks>>

\* the effect of a call that went through the engine
Engine(call, r) ==
    /\ registers' = r.h.reg
    /\ importCache' = r.h.cache
    /\ last' = Observed(call, r)
    /\ UNCHANGED <<diName, imports, public, names, importsArg, callbacks>>

\* di.get(name, publicOnly, onError) of injector i
Get(i, name, publicOnly, onError) ==
    Engine(Call("get", i, name, Undefined, NoCustom, publicOnly, onError),
           DiGet(Heap, i, name, publicOnly, onError, 1))

\* di.require(name, onError) of injector i
Require(i, name, onError) ==
    Engine(Call("require", i, name, Undefined, NoCustom, FALSE, onError),
           DiRequire(Heap, i, name, onError))

\* di(fn, custom, onError) of injector i
Invoke(i, fn, custom, onError) ==
    Engine(Call("invoke", i, <<>>, fn, custom, FALSE, onError),
           DiInvoke(Heap, i, fn, custom, onError, 1))

\* the function di.callback(fn, custom, onError) of injector i returns;
\* made is the registry at that moment, kept to tell what came later
Wrapper(i, fn, custom, onError, made) ==
    [t |-> "wrapper", di |-> i, fn |-> fn, custom |-> custom, onError |-> onError,
     made |-> made]

\* a bug: the wrapper resolves against the registry of its creation
CallWrapperAtCreation(h, w, depth) ==
    CallCallback([h EXCEPT !.reg[w.di] = w.made], w.di, w.fn, w.custom, w.onError,
                 "undefined", depth)

\* a call, without arguments, of a function that di.callback returned
CallWrapper(h, w, depth) ==
    CallCallback(h, w.di, w.fn, w.custom, w.onError, "undefined", depth)

\* di.callback(fn, custom, onError) of injector i
Callback(i, fn, custom, onError) ==
    /\ Cardinality(callbacks) < MaxCallbacks
    /\ LET w == Wrapper(i, fn, custom, onError, registers[i])
       IN  /\ w \notin callbacks
           /\ callbacks' = callbacks \cup {w}
           /\ last' = Observed(Call("callback", i, <<>>, w, custom, FALSE, onError),
                               Plain(w))
    /\ UNCHANGED <<diName, registers, imports, importCache, public, names, importsArg>>

\* the client calls a wrapper it holds
Called(w) ==
    LET r == CallWrapper(Heap, w, 1)
    IN  /\ registers' = r.h.reg
        /\ importCache' = r.h.cache
        /\ last' = Observed(Call("wrapper", w.di, <<>>, w, w.custom, FALSE, w.onError), r)
        /\ UNCHANGED <<diName, imports, public, names, importsArg, callbacks>>

\* an array of values
Array(items) == [t |-> "array", items |-> items]

\* the major versions of lodash the package has declared: _.invoke(collection,
\* method, args) calls the method of every element up to 3; from 4 on it is
\* _.invoke(object, path, args), which calls the method of the object itself
LodashVersions == {3, 4}

RECURSIVE InvokeEach(_, _, _, _, _)
\* lodash 3: dis[index..] are invoked one after the other, acc the results so far
InvokeEach(h, dis, fn, index, acc) ==
    IF index > Len(dis) THEN Ok(h, Array(acc))
    ELSE LET r == DiInvoke(h, dis[index], fn, NoCustom, "undefined", 1)
         IN  IF r.thrown THEN r
             ELSE InvokeEach(r.h, dis, fn, index + 1, Append(acc, r.val))

\* diFactory.mapInvoke(dis, fn) = _.invoke(dis, 'invoke', fn); an array has
\* no method invoke, so lodash 4 calls nothing and returns undefined
MapInvokeResult(h, dis, fn, lodash) ==
    IF lodash < 4 THEN InvokeEach(h, dis, fn, 1, <<>>) ELSE Ok(h, Undefined)

\* diFactory.mapInvoke(dis, fn) in a build with the given lodash
MapInvoke(dis, fn, lodash) ==
    Engine(Call("mapInvoke", 0, <<>>, [t |-> "mapInvoke", dis |-> dis, fn |-> fn],
                NoCustom, FALSE, "undefined"),
           MapInvokeResult(Heap, dis, fn, lodash))

RECURSIVE NamesOf(_, _)
\* _.map(list, function(d) { return d.diName; })
NamesOf(list, index) ==
    IF index > Len(list) THEN <<>>
    ELSE <<Str(diName[list[index]])>> \o NamesOf(list, index + 1)

\* di.getImportNames() of injector i: _.map(imports, ...) over the imports
\* argument of diFactory
GetImportNames(i) ==
    /\ last' = Observed(Call("getImportNames", i, <<>>, Undefined, NoCustom, FALSE,
                             "undefined"),
                        Plain(Array(NamesOf(importsArg[i], 1))))
    /\ UNCHANGED <<diName, registers, imports, importCache, public, names, importsArg,
                   callbacks>>

\* one line of the text showDependencies hands to fn
Line(kind, name, keys) == [kind |-> kind, name |-> name, keys |-> keys]

\* the lines showDependencies of injector i pushes before it visits the imports
OwnLines(i, inherited) ==
    (IF inherited THEN <<>>
     ELSE <<Line("injector", diName[i], {}), Line("blank", <<>>, {})>>)
    \o <<Line(IF inherited THEN "inherited" ELSE "own", diName[i], {}),
         Line("public", diName[i], names[i] \cap public[i])>>
    \o (IF inherited THEN <<>> ELSE <<Line("private", diName[i], names[i] \ public[i])>>)

\* what a showDependencies call leaves: whether fn was called and with which
\* lines, the processed object, and whether the stack overflowed
Shown(called, lines, processed, overflow) ==
    [called |-> called, lines |-> lines, processed |-> processed, overflow |-> overflow]

RECURSIVE ShowDependenciesOf(_, _, _, _, _)
RECURSIVE ShowEach(_, _, _, _, _, _)

\* _.invoke(_imports, 'showDependencies', add, true, processed) of lodash 3:
\* the lines the imports list[index..] add
ShowEach(list, index, processed, lodash, depth, acc) ==
    IF index > Len(list) THEN Shown(TRUE, acc, processed, FALSE)
    ELSE LET r == ShowDependenciesOf(list[index], TRUE, processed, lodash, depth)
         IN  IF r.overflow THEN r
             ELSE ShowEach(list, index + 1, r.processed, lodash, depth,
                           IF r.called THEN acc \o r.lines ELSE acc)

\* a bug: the injector is not marked as processed
ShowDependenciesUnmarked(i, inherited, processed, lodash, depth) ==
    IF depth > MaxStack THEN Shown(FALSE, <<>>, processed, TRUE)
    ELSE IF diName[i] \in processed THEN Shown(FALSE, <<>>, processed, FALSE)
    ELSE LET sub == IF lodash < 4
                    THEN ShowEach(imports[i], 1, processed, lodash, depth + 1, <<>>)
                    ELSE Shown(TRUE, <<>>, processed, FALSE)
         IN  IF sub.overflow THEN sub
             ELSE Shown(TRUE,
                        OwnLines(i, inherited) \o sub.lines
                           \o (IF inherited THEN <<>> ELSE <<Line("blank", <<>>, {})>>),
                        sub.processed, FALSE)

\* di.showDependencies(fn, inherited, processed) of injector i
ShowDependenciesOf(i, inherited, processed, lodash, depth) ==
    IF depth > MaxStack THEN Shown(FALSE, <<>>, processed, TRUE)
    ELSE IF diName[i] \in processed THEN Shown(FALSE, <<>>, processed, FALSE)
    ELSE LET sub == IF lodash < 4
                    THEN ShowEach(imports[i], 1, processed \cup {diName[i]}, lodash,
                                  depth + 1, <<>>)
                    ELSE Shown(TRUE, <<>>, processed \cup {diName[i]}, FALSE)
         IN  IF sub.overflow THEN sub
             ELSE Shown(TRUE,
                        OwnLines(i, inherited) \o sub.lines
                           \o (IF inherited THEN <<>> ELSE <<Line("blank", <<>>, {})>>),
                        sub.processed, FALSE)

\* the client calls showDependencies(fn, inherited, processed) of injector i
ShowDependencies(i, inherited, processed, lodash) ==
    LET r == ShowDependenciesOf(i, inherited, processed, lodash, 1)
        call == Call("showDependencies", i, <<>>,
                     [t |-> "show", inherited |-> inherited, processed |-> processed,
                      lodash |-> lodash],
                     NoCustom, FALSE, "undefined")
    IN  /\ last' = Observed(call,
                            IF r.overflow
                            THEN [Plain(Undefined) EXCEPT !.thrown = TRUE, !.err = RangeError]
                            ELSE Plain([t |-> "shown", called |-> r.called,
                                        lines |-> r.lines, processed |-> r.processed]))
        /\ UNCHANGED <<diName, registers, imports, importCache, public, names, importsArg,
                       callbacks>>

\* the TypeError of calling a property that is not a function
TypeError == [code |-> -2, di |-> <<>>, cause |-> "is not a function", detail |-> <<>>]

\* di.register(name).factory(fn).get() of injector i, fn a function: factory
\* registers fn and returns the Dependency, which has no method get
RegisterFactoryGet(i, name, f) ==
    /\ registers' = [registers EXCEPT
                        ![i] = SetValue(@, diName[i], name, FactoryCallback(f, i))]
    /\ names' = [names EXCEPT ![i] = @ \cup {BareKey(name)}]
    /\ last' = Observed(Call("factoryGet", i, name, Fn(f), NoCustom, FALSE, "undefined"),
                        [Plain(Undefined) EXCEPT !.thrown = TRUE, !.err = TypeError])
    /\ UNCHANGED <<diName, imports, importCache, public, importsArg, callbacks>>

\* what require(file) does for the file handed to di.file: it throws, or it
\* returns the module's exports
Unloadable == [t |-> "unloadable"]

\* getFileContents(file, onError, diName): null after a reported failure,
\* else the exports
getFileContents(h, file, onError, i) ==
    IF file = Unloadable
    THEN LET e == handleError(h, onError,
                     DiError(COULD_NOT_REQUIRE, diName[i], "Could not require file", <<>>))
         IN  IF e.thrown THEN e ELSE Ok(e.h, Null)
    ELSE Ok(h, file)

\* di.file(file, custom, onError) of injector i
DiFile(h, i, file, custom, onError) ==
    LET c == getFileContents(h, file, onError, i)
    IN  IF c.thrown THEN c
        ELSE IF c.val = Null THEN Ok(c.h, Null)
        ELSE IF ~IsFunction(c.val)
        THEN LET e == handleError(c.h, onError,
                         DiError(NOT_A_FUNCTION, diName[i],
                                 "did not return a function", <<>>))
             IN  IF e.thrown THEN e ELSE Ok(e.h, Null)
        ELSE DiInvoke(c.h, i, c.val, custom, onError, 1)

\* the client calls di.file(file, custom, onError) of injector i
File(i, file, custom, onError) ==
    Engine(Call("file", i, <<>>, file, custom, FALSE, onError),
           DiFile(Heap, i, file, custom, onError))

\* ------------------------------------------------------- specifications
\* no injector exists yet
Init ==
    /\ diName = <<>>
    /\ registers = <<>>
    /\ imports = <<>>
    /\ importCache = <<>>
    /\ public = <<>>
    /\ names = <<>>
    /\ importsArg = <<>>
    /\ callbacks = {}
    /\ last = NoCall

\* the state after diFactory(name) in a fresh program
InitOne(name) ==
    /\ diName = <<Sanitize(name)>>
    /\ registers = <<SetValue(EmptyMap, Sanitize(name), <<"d", "i">>, DiRef(1))>>
    /\ imports = << <<>> >>
    /\ importCache = <<EmptyMap>>
    /\ public = <<{}>>
    /\ names = <<{BareKey(<<"d", "i">>)}>>
    /\ importsArg = << <<>> >>
    /\ callbacks = {}
    /\ last = Observed(Call("diFactory", 0, name, DiRef(1), NoCustom, FALSE, "undefined"),
                       Plain(DiRef(1)))

\* One injector in depth: values and factories registered under names in
\* either letter case, looked up bare and prefixed.
LocalDiNames == {<<"a">>, <<"A", "-">>}
LocalNames == {<<"v">>, <<"V">>, <<"x">>}
LocalValues == {Num(1), Null}
LocalFns == {"fV", "fXV", "f0"}
LocalGetNames == {<<"v">>, <<"V">>, <<"x">>, <<"a", "v">>, <<"A", "V">>, <<"a", "x">>}

InitLocal == \E name \in LocalDiNames : InitOne(name)

Next ==
    \/ \E i \in Dis, name \in LocalNames, value \in LocalValues : RegisterValue(i, name, value)
    \/ \E i \in Dis, name \in LocalNames, f \in LocalFns : RegisterFactory(i, name, f)
    \/ \E i \in Dis, name \in LocalGetNames, onError \in {"undefined", "function"} :
          Get(i, name, FALSE, onError)
    \/ \E i \in Dis, name \in LocalGetNames, onError \in {"undefined", "function"} :
          Require(i, name, onError)
    \/ \E i \in Dis, f \in LocalFns, onError \in {"undefined", "function"} :
          Invoke(i, Fn(f), NoCustom, onError)

Spec == InitLocal /\ [][Next]_vars

\* One injector, invocation in depth: targets that are and are not functions,
\* override maps, parameters that are values, factories, missing.
InvokeNames == {<<"v">>, <<"x">>}
InvokeValues == {Num(1), Null}
InvokeFactories == {"fV", "f0"}
InvokeTargets == {Fn("fV"), Fn("fXV"), Fn("fXDV"), Fn("f0"), False}
InvokeCustoms ==
    {NoCustom, Custom(EmptyMap),
     Custom(<<"x">> :> Num(2)), Custom(<<"V">> :> Null), Custom(<<"V">> :> False),
     Custom(<<"v">> :> Num(2)), Custom(<<"x">> :> Null @@ <<"V">> :> Num(2))}

NextInvoke ==
    \/ \E i \in Dis, name \in InvokeNames, value \in InvokeValues : RegisterValue(i, name, value)
    \/ \E i \in Dis, name \in InvokeNames, f \in InvokeFactories : RegisterFactory(i, name, f)
    \/ \E i \in Dis, fn \in InvokeTargets, custom \in InvokeCustoms,
          onError \in {"undefined", "function"} : Invoke(i, fn, custom, onError)

SpecInvoke == InitLocal /\ [][NextInvoke]_vars

\* Injectors that import their parent: each injector registers its own
\* value under one name, marks it public, and looks names up bare and prefixed.
TreeDiNames == {<<"a">>, <<"b">>}
TreeNames == {<<"v">>}
TreeGetNames == {<<"v">>, <<"a", "v">>, <<"b", "v">>}
TreeImports == {<<>>} \cup {<<p>> : p \in Dis}

NextImports ==
    \/ \E name \in TreeDiNames, imps \in TreeImports : DiFactory(name, imps)
    \/ \E p \in Dis, name \in TreeDiNames : NewChild(p, name, <<>>)
    \/ \E i \in Dis, name \in TreeNames : RegisterValue(i, name, Num(i))
    \/ \E i \in Dis, name \in TreeNames : RegisterPublic(i, name)
    \/ \E i \in Dis, name \in TreeGetNames : Get(i, name, FALSE, "undefined")

SpecImports == Init /\ [][NextImports]_vars

\* A parent and its child: the parent's value is registered, registered
\* again with another value, and looked up from the child in between.
ChildDiNames == {<<"b">>}
ChildGetNames == {<<"v">>, <<"a", "v">>}
ChildValues == {Num(1), Num(2)}

InitChild == InitOne(<<"a">>)

NextChild ==
    \/ \E p \in Dis, name \in ChildDiNames : NewChild(p, name, <<>>)
    \/ \E i \in Dis, value \in ChildValues : RegisterValue(i, <<"v">>, value)
    \/ \E i \in Dis : RegisterPublic(i, <<"v">>)
    \/ \E i \in Dis, name \in ChildGetNames : Get(i, name, FALSE, "undefined")

SpecChild == InitChild /\ [][NextChild]_vars

\* Creation: injectors are made by diFactory and newChild, mark their own
\* entry public and look themselves and each other up.
CreateDiNames == {<<"a">>, <<"B">>}
CreateGetNames == {<<"d", "i">>, <<"a", "d", "i">>, <<"b", "d", "i">>}

NextCreate ==
    \/ \E name \in CreateDiNames, imps \in TreeImports : DiFactory(name, imps)
    \/ \E p \in Dis, name \in CreateDiNames : NewChild(p, name, <<>>)
    \/ \E i \in Dis : RegisterPublic(i, <<"d", "i">>)
    \/ \E i \in Dis, name \in CreateGetNames, publicOnly \in BOOLEAN :
          Get(i, name, publicOnly, "undefined")

SpecCreate == Init /\ [][NextCreate]_vars

\* Deferred invocation: wrappers are made by di.callback, entries are
\* registered before and after, and the wrappers are called.
CallbackFns == {Fn("fV"), Fn("fXV"), False}
CallbackCustoms == {NoCustom, Custom(<<"x">> :> Num(2))}
CallbackValues == {Num(1), Num(2)}

NextCallback ==
    \/ \E i \in Dis, value \in CallbackValues : RegisterValue(i, <<"v">>, value)
    \/ \E i \in Dis, fn \in CallbackFns, custom \in CallbackCustoms,
          onError \in {"undefined", "function"} : Callback(i, fn, custom, onError)
    \/ \E w \in callbacks : Called(w)

SpecCallback == InitChild /\ [][NextCallback]_vars

\* Independent injectors, each with its own v, invoked together.
MapFns == {Fn("fV"), Fn("f0")}
MapDis == {<<>>} \cup {<<i>> : i \in Dis} \cup {<<i, j>> : i \in Dis, j \in Dis}

NextMap ==
    \/ \E name \in TreeDiNames : DiFactory(name, <<>>)
    \/ \E i \in Dis : \E value \in {Num(i), Num(0)} : RegisterValue(i, <<"v">>, value)
    \/ \E i \in Dis : RegisterFactory(i, <<"v">>, "f0")
    \/ \E dis \in MapDis, fn \in MapFns, lodash \in LodashVersions :
          MapInvoke(dis, fn, lodash)

SpecMap == Init /\ [][NextMap]_vars

\* Import lists: two injectors and a third that was made by diFactory or as
\* a child of one of them, with an imports argument, and that imports them,
\* in either order, again, and itself.
ThreeDiNames == {<< <<"a">>, <<"b">>, <<"x">> >>, << <<"a">>, <<"1">>, <<"x">> >>}
ThreeImportsArg == {<<>>, <<2>>, <<1, 1, 2>>}
ThreeLists == {<<i>> : i \in 1..3} \cup {<<i, j>> : i \in 1..3, j \in 1..3}

\* how the third injector was made: diFactory(name, arg) or, by parent p,
\* p.newChild(name, arg), which is diFactory(name, [p].concat(arg))
ThreeCreations ==
    {[op |-> "diFactory", parent |-> 0, imps |-> arg] : arg \in ThreeImportsArg}
       \cup {[op |-> "newChild", parent |-> p, imps |-> <<p>> \o arg] :
                 p \in 1..2, arg \in ThreeImportsArg}

\* the state after diFactory(n[1]); diFactory(n[2]) and the third creation
InitThree ==
    \E n \in ThreeDiNames, c \in ThreeCreations :
       LET dn == [k \in 1..3 |-> Sanitize(n[k])]
       IN  /\ diName = dn
           /\ registers = [k \in 1..3 |-> SetValue(EmptyMap, dn[k], <<"d", "i">>, DiRef(k))]
           /\ imports = << <<>>, <<>>, ImportEach(<<>>, c.imps, 3, dn, 1) >>
           /\ importCache = [k \in 1..3 |-> EmptyMap]
           /\ public = [k \in 1..3 |-> {}]
           /\ names = [k \in 1..3 |-> {BareKey(<<"d", "i">>)}]
           /\ importsArg = << <<>>, <<>>, c.imps >>
           /\ callbacks = {}
           /\ last = Observed(Call(c.op, c.parent, n[3], DiRef(3), NoCustom, FALSE,
                                   "undefined"), Plain(DiRef(3)))

NextThree ==
    \/ \E list \in ThreeLists : Import(3, list)
    \/ \E i \in 1..2 : RegisterValue(i, <<"v">>, Num(i))
    \/ \E i \in 1..2 : RegisterPublic(i, <<"v">>)
    \/ Get(3, <<"v">>, FALSE, "undefined")

SpecThree == InitThree /\ [][NextThree]_vars

\* A family: injectors are made by diFactory and as children of each other,
\* import each other afterwards and are asked for the names of their imports.

NextFamily ==
    \/ \E name \in {<<"b">>, <<"x">>}, imps \in {<<>>, <<1, 1>>} :
          Len(diName) < MaxFamily /\ Create(name, imps, "diFactory", 0)
    \/ \E p \in Dis, name \in {<<"b">>, <<"x">>}, extra \in {<<>>, <<1>>} :
          Len(diName) < MaxFamily /\ Create(name, <<p>> \o extra, "newChild", p)
    \/ \E i \in Dis : \E j \in 1..(i - 1) : Import(i, <<j>>)
    \/ \E i \in Dis : GetImportNames(i)

SpecFamily == InitChild /\ [][NextFamily]_vars

\* Import graphs: three injectors import each other in every way, cycles
\* included, and are asked to show their dependencies.
NextGraph ==
    \/ \E i \in Dis, j \in Dis : Import(i, <<j>>)
    \/ RegisterPublic(1, <<"d", "i">>)
    \/ \E i \in Dis, inherited \in BOOLEAN,
          processed \in {{}} \cup {{diName[j]} : j \in Dis}, lodash \in LodashVersions :
             ShowDependencies(i, inherited, processed, lodash)

\* three injectors made by diFactory without imports
InitGraph == InitThree /\ last.call.op = "diFactory" /\ importsArg[3] = <<>>

SpecGraph == InitGraph /\ [][NextGraph]_vars

\* Null entries: a parent and its children register a value or null, mark it
\* public, and look it up, require it and have it injected.
NullValues == {Num(1), Null}

NextNull ==
    \/ NewChild(1, <<"b">>, <<>>)
    \/ \E i \in Dis, value \in NullValues : RegisterValue(i, <<"v">>, value)
    \/ \E i \in Dis : RegisterPublic(i, <<"v">>)
    \/ \E i \in Dis : Get(i, <<"v">>, FALSE, "undefined")
    \/ \E i \in Dis, onError \in {"undefined", "function"} : Require(i, <<"v">>, onError)
    \/ \E i \in Dis, onError \in {"undefined", "function"} :
          Invoke(i, Fn("fV"), NoCustom, onError)

SpecNull == InitChild /\ [][NextNull]_vars

\* Every operation on a chain: injector 3 imports 2, injector 2 imports 1;
\* injector 1 holds a value v, injector 2 a factory x that needs v;
\* everything is looked up from the importers, directly and deferred.
OpsNames == {<<"v">>, <<"x">>}

NextOps ==
    \/ \E i \in 2..3 : Import(i, <<i - 1>>)
    \/ RegisterValue(1, <<"v">>, Num(1))
    \/ \E f \in {"fV", "f0"} : RegisterFactory(2, <<"x">>, f)
    \/ \E e \in {<<1, <<"v">> >>, <<2, <<"x">> >>} : RegisterPublic(e[1], e[2])
    \/ \E i \in 2..3, name \in OpsNames : Get(i, name, FALSE, "undefined")
    \/ \E name \in OpsNames : Require(3, name, "function")
    \/ Invoke(3, Fn("fXV"), NoCustom, "function")
    \/ Callback(3, Fn("fV"), NoCustom, "function")
    \/ \E w \in callbacks : Called(w)

SpecOps == InitGraph /\ [][NextOps]_vars

\* The registration builder: values and factories are registered, factories
\* also with an immediate get(), and looked up.
NextBuilder ==
    \/ \E i \in Dis, value \in NullValues : RegisterValue(i, <<"v">>, value)
    \/ \E i \in Dis, f \in {"fV", "f0"} : RegisterFactory(i, <<"x">>, f)
    \/ \E i \in Dis, f \in {"fV", "f0"} : RegisterFactoryGet(i, <<"x">>, f)
    \/ \E i \in Dis, name \in OpsNames \cup {<<"a", "x">>},
          onError \in {"undefined", "function"} : Get(i, name, FALSE, onError)

SpecBuilder == InitChild /\ [][NextBuilder]_vars

\* Files: one injector invokes what files export: nothing loadable, null, a
\* number, and functions whose parameters are or are not registered.
FileContents == {Unloadable, Null, Num(1), Fn("fV"), Fn("fXV")}

NextFile ==
    \/ \E i \in Dis, value \in NullValues : RegisterValue(i, <<"v">>, value)
    \/ \E i \in Dis : RegisterFactory(i, <<"x">>, "fV")
    \/ \E i \in Dis, file \in FileContents, custom \in {NoCustom, Custom(<<"x">> :> Num(2))},
          onError \in {"undefined", "function"} : File(i, file, custom, onError)

SpecFile == InitChild /\ [][NextFile]_vars

\* Raw names: an injector registers a value under raw names that put digits
\* and punctuation before and after a letter in upper case, and looks the same
\* raw names up.
\* every raw name of at most MaxLen characters
RawNames == UNION {[1..n -> {"V", "1", "-"}] : n \in 0..MaxLen}

\* "V" after at most MaxLen digits and hyphens, and before at most one
MixedNames ==
    {p \o <<"V">> \o q : p \in UNION {[1..n -> {"1", "-"}] : n \in 0..MaxLen},
                          q \in {<<>>, <<"1">>, <<"-">>}}

NextNames ==
    \/ \E i \in Dis, raw \in MixedNames : RegisterValue(i, raw, Num(1))
    \/ \E i \in Dis, raw \in MixedNames : Get(i, raw, FALSE, "undefined")

SpecNames == (\E name \in {<<"a">>, <<"1", "A", "-">>} : InitOne(name)) /\ [][NextNames]_vars

\* Import cycles: injector 3 imports 2, 2 imports 1 and 3, 1 imports 3, in
\* every order and combination; injector 1 holds a public v that it
\* registers again, injector 2 a private one, and every injector looks v up.
NextCycle ==
    \/ \E e \in {<<3, 2>>, <<2, 1>>, <<2, 3>>, <<1, 3>>} : Import(e[1], <<e[2]>>)
    \/ \E e \in {<<1, 1>>, <<1, 4>>, <<2, 2>>} : RegisterValue(e[1], <<"v">>, Num(e[2]))
    \/ RegisterPublic(1, <<"v">>)
    \/ \E i \in Dis, onError \in {"undefined", "function"} : Get(i, <<"v">>, FALSE, onError)

SpecCycle == InitGraph /\ [][NextCycle]_vars

\* Factory scope: injector 3 imports 2 and 2 imports 1; every injector
\* registers its own v, public in injector 1; injector 2 registers the public
\* factory x, which needs v, and registers x again, as a factory and as a
\* value, and x is requested from 2 and through 3.
NextScope ==
    \/ \E i \in 2..3 : Import(i, <<i - 1>>)
    \/ \E e \in {<<1, <<"v">>, 1>>, <<2, <<"v">>, 2>>, <<3, <<"v">>, 3>>, <<2, <<"x">>, 5>>} :
          RegisterValue(e[1], e[2], Num(e[3]))
    \/ RegisterFactory(2, <<"x">>, "fV")
    \/ \E e \in {<<1, <<"v">> >>, <<2, <<"x">> >>} : RegisterPublic(e[1], e[2])
    \/ \E i \in 2..3 : Get(i, <<"x">>, FALSE, "undefined")

SpecScope == InitGraph /\ [][NextScope]_vars

\* ------------------------------------------------------------------ claims
\* the fn.apply calls of the last call that ran function f at call depth d
Runs(log, f, d) == SelectSeq(log, LAMBDA e : e.fn = f /\ e.depth = d)

\* the last call consulted the error callback or threw
Failed(l) == l.thrown \/ l.errs # <<>>

\* C1: a factory is not executed when it is registered; a get of a key that
\* holds a factory applies the factory function once when its parameters
\* resolve (and not at all when they do not), stores the result under that key
\* and returns it; a get of a key that holds anything else executes nothing,
\* changes no entry and returns the stored value, and a stored result is only
\* ever replaced by a registration.
C1_FactoryOnce ==
    [][ /\ last'.call.op = "factory" => last'.log = <<>> /\ importCache' = importCache
        /\ (last'.call.op = "get" /\ Has(registers[last'.call.di], toLowerCase(last'.call.name))) =>
              LET i == last'.call.di
                  key == toLowerCase(last'.call.name)
                  entry == registers[i][key]
              IN  IF entry.t = "factory"
                  THEN LET runs == Runs(last'.log, entry.fn, 2)
                       IN  IF Failed(last')
                           THEN runs = <<>>
                           ELSE /\ Len(runs) = 1
                                /\ last'.ret = Apply(entry.fn, runs[1].args)
                                /\ registers'[i][key] = last'.ret
                  ELSE /\ last'.log = <<>>
                       /\ last'.ret = entry
                       /\ registers' = registers
        /\ \A i \in Dis : \A key \in DOMAIN registers[i] :
              (registers[i][key].t # "factory" /\ registers'[i][key] # registers[i][key])
                 => last'.call.op \in {"value", "factory"}
      ]_vars

\* C1 witness: a get that returned a factory's stored result without running it
C1_Witness ==
    /\ last.call.op = "get"
    /\ last.ret.t = "returned"
    /\ last.log = <<>>

\* two names that differ at most in the case of their letters
SameUpToCase(n, m) ==
    /\ Len(n) = Len(m)
    /\ \A k \in 1..Len(n) :
          \/ n[k] = m[k]
          \/ \E j \in 1..Len(UpperChars) : {n[k], m[k]} = {UpperChars[j], LowerChars[j]}

\* names in every letter case, bare and prefixed
CaseNames ==
    {<<c>> : c \in {"v", "V", "x", "X"}}
    \cup {<<c, d>> : c \in {"a", "A"}, d \in {"v", "V", "x", "X"}}

\* what the client sees of a result: thrown or not, the value, the error
Seen(r) == [thrown |-> r.thrown, val |-> r.val, err |-> r.err.code]

\* C4: names that differ only in letter case resolve alike: get and require
\* give the same outcome for both, invoke injects for a parameter what get
\* returns for any case variant of its name, and a value registered under a
\* name is what get returns for every case variant of that name.
C4_CaseInsensitive ==
    \A i \in Dis :
       /\ \A n \in CaseNames, m \in CaseNames :
             SameUpToCase(n, m) =>
                /\ Seen(DiGet(Heap, i, n, FALSE, "undefined", 1))
                      = Seen(DiGet(Heap, i, m, FALSE, "undefined", 1))
                /\ Seen(DiRequire(Heap, i, n, "function")).val
                      = Seen(DiRequire(Heap, i, m, "function")).val
       /\ \A f \in FnIds :
             LET args == getParameterNames(f)
                 inj == Injections(Heap, i, args, NoCustom, 1, <<>>, 1)
             IN  ~inj.thrown =>
                    \A k \in 1..Len(args) : \A m \in CaseNames :
                       SameUpToCase(args[k], m) =>
                          inj.val[k] = DiGet(Heap, i, m, FALSE, "undefined", 1).val
       /\ (last.call.op = "value" /\ last.call.di = i) =>
             \A m \in CaseNames :
                SameUpToCase(last.call.name, m) =>
                   DiGet(Heap, i, m, FALSE, "undefined", 1).val = last.call.arg

\* C4 witness: a value was registered as "V" and get("v") returns it
C4_Witness ==
    /\ last.call.op = "value"
    /\ last.call.name = <<"V">>
    /\ last.call.arg = Num(1)
    /\ DiGet(Heap, 1, <<"v">>, FALSE, "undefined", 1).val = Num(1)

\* C5 as claimed: get(x) and get(<injector name>x) return the same for every
\* registered entry x, plain value or factory
C5_PrefixedSame ==
    \A i \in Dis : \A n \in LocalNames :
       Has(registers[i], BareKey(n)) =>
          Seen(DiGet(Heap, i, n, FALSE, "undefined", 1))
             = Seen(DiGet(Heap, i, diName[i] \o n, FALSE, "undefined", 1))

\* what parameter p of an invoke on injector i resolves to in the current
\* state: its override when the override map has one, else what get returns
Resolution(i, p, custom) ==
    IF custom.truthy /\ Has(custom.own, p)
    THEN [thrown |-> FALSE,
          val |-> IF custom.own[p] = Null THEN Undefined ELSE custom.own[p]]
    ELSE LET r == DiGet(Heap, i, p, FALSE, "undefined", 1)
         IN  [thrown |-> r.thrown, val |-> r.val]

\* the parameters of the target of an invoke call c
ParamsOf(c) == IF IsFunction(c.arg) THEN getParameterNames(c.arg.fn) ELSE <<>>

\* the fn.apply calls the last call made itself, not through a factory
OwnCalls(l) == SelectSeq(l.log, LAMBDA e : e.depth = 1)

\* C8: invoke calls fn once, with what each parameter resolves to, in the
\* order of declaration, and returns fn's result, exactly when fn is a
\* function and every parameter resolves to a value other than null; in
\* every other case fn is not called and the call fails.
C8_InvokeCallsOnce ==
    [][ last'.call.op = "invoke" =>
          LET c == last'.call
              params == ParamsOf(c)
              res == [k \in 1..Len(params) |-> Resolution(c.di, params[k], c.custom)]
              allOk == /\ IsFunction(c.arg)
                       /\ \A k \in 1..Len(params) : ~res[k].thrown /\ res[k].val # Null
              args == [k \in 1..Len(params) |-> res[k].val]
          IN  IF allOk
              THEN /\ OwnCalls(last') = <<[fn |-> c.arg.fn, args |-> args, depth |-> 1]>>
                   /\ ~Failed(last')
                   /\ last'.ret = Apply(c.arg.fn, args)
              ELSE /\ OwnCalls(last') = <<>>
                   /\ Failed(last')
                   /\ ~last'.thrown => last'.ret = Null
      ]_vars

\* C8 witness: an invoke of a function of three parameters that was called
C8_Witness ==
    /\ last.call.op = "invoke"
    /\ last.call.arg = Fn("fXDV")
    /\ Len(OwnCalls(last)) = 1
    /\ last.ret.t = "returned"

RECURSIVE WithCommas(_, _)
\* the names list[k..], each but the first of the whole list after ", "
WithCommas(list, k) ==
    IF k > Len(list) THEN <<>>
    ELSE (IF k > 1 THEN <<",", " ">> ELSE <<>>) \o list[k] \o WithCommas(list, k + 1)

\* the error the last call reported: thrown, or handed to the error callback
Reported(l) == IF l.thrown THEN l.err ELSE l.errs[Len(l.errs)]

\* C9: when every parameter of an invoke resolves without throwing and at
\* least one resolves to null, the call reports one error, DEPENDENCY_NOT_FOUND,
\* whose message quotes the names of exactly the parameters that resolved to
\* null, in the order of declaration, separated by ", ".
C9_MissingListed ==
    [][ last'.call.op = "invoke" /\ IsFunction(last'.call.arg) =>
          LET c == last'.call
              params == ParamsOf(c)
              res == [k \in 1..Len(params) |-> Resolution(c.di, params[k], c.custom)]
              idx == SelectSeq([k \in 1..Len(params) |-> k], LAMBDA k : res[k].val = Null)
              missing == [j \in 1..Len(idx) |-> params[idx[j]]]
          IN  ((\A k \in 1..Len(params) : ~res[k].thrown) /\ idx # <<>>) =>
                 /\ Failed(last')
                 /\ last'.thrown = (c.onError # "function")
                 /\ Len(last'.errs) = (IF c.onError = "function" THEN 1 ELSE 0)
                 /\ Reported(last').code = DEPENDENCY_NOT_FOUND
                 /\ Reported(last').cause = "could not inject"
                 /\ Reported(last').detail = WithCommas(missing, 1)
      ]_vars

\* C9 witness: an invoke of fn(x, Di, V) reported "x, V" as missing
C9_Witness ==
    /\ last.call.op = "invoke"
    /\ last.call.arg = Fn("fXDV")
    /\ Failed(last)
    /\ Reported(last).code = DEPENDENCY_NOT_FOUND
    /\ Reported(last).detail = <<"x", ",", " ", "V">>

\* C10: in an invoke with an override map, fn receives for every overridden
\* parameter the override (undefined for an override of null, false for an
\* override of false) whatever the registry holds, and is called whenever the
\* other parameters resolve; a parameter that has no override and resolves
\* to null makes the call fail with DEPENDENCY_NOT_FOUND without calling fn.
C10_CustomOverrides ==
    [][ (last'.call.op = "invoke" /\ IsFunction(last'.call.arg) /\ last'.call.custom.truthy) =>
          LET c == last'.call
              own == c.custom.own
              params == ParamsOf(c)
              rest == {k \in 1..Len(params) : ~Has(own, params[k])}
              got == [k \in rest |-> DiGet(Heap, c.di, params[k], FALSE, "undefined", 1)]
          IN  (\A k \in rest : ~got[k].thrown) =>
                 IF \A k \in rest : got[k].val # Null
                 THEN /\ ~Failed(last')
                      /\ Len(OwnCalls(last')) = 1
                      /\ \A k \in 1..Len(params) :
                            LET arg == OwnCalls(last')[1].args[k]
                            IN  IF k \in rest THEN arg = got[k].val
                                ELSE /\ own[params[k]] = Null => arg = Undefined
                                     /\ own[params[k]] = False => arg = False
                                     /\ own[params[k]] # Null => arg = own[params[k]]
                 ELSE /\ OwnCalls(last') = <<>>
                      /\ Failed(last')
                      /\ Reported(last').code = DEPENDENCY_NOT_FOUND
      ]_vars

\* C10 witness: fn(x, V) was called with undefined for x, overridden by null,
\* while x is registered
C10_Witness ==
    /\ last.call.op = "invoke"
    /\ last.call.arg = Fn("fXV")
    /\ last.call.custom = Custom(<<"x">> :> Null @@ <<"V">> :> Num(2))
    /\ Has(registers[1], <<"x">>)
    /\ Len(OwnCalls(last)) = 1
    /\ OwnCalls(last)[1].args = <<Undefined, Num(2)>>

RECURSIVE ReachFrom(_)
\* the injectors in set and those they import, directly or not
ReachFrom(set) ==
    LET next == set \cup UNION {{imports[x][k] : k \in 1..Len(imports[x])} : x \in set}
    IN  IF next = set THEN set ELSE ReachFrom(next)

\* the injectors b looks into, directly or through their imports
Reach(b) == ReachFrom({imports[b][k] : k \in 1..Len(imports[b])})

\* injector x has an entry under key and has marked it public
Exposes(x, key) == Has(registers[x], key) /\ key \in public[x]

\* the keys looked up in SpecImports
TreeKeys == {toLowerCase(n) : n \in TreeGetNames}

\* what get(key) of injector b returns
Got(b, key) == DiGet(Heap, b, key, FALSE, "undefined", 1).val

IsChildOf(b, a) == Len(imports[b]) > 0 /\ imports[b][1] = a

\* C3: in every state, a child B of an injector A that exposes a value under
\* a key for which B has no local entry gets A's value from B.get(key).
C3_ChildResolves ==
    \A b \in Dis : \A a \in Dis : \A key \in TreeKeys :
        (IsChildOf(b, a) /\ Exposes(a, key) /\ ~Has(registers[b], key))
           => Got(b, key) = registers[a][key]

\* C7: in every state, a child S with a local entry v gets its own entry
\* from S.get(v), and gets the parent's public entry v from
\* S.get(<parent name>v).
C7_LocalFirstParentPrefixed ==
    \A s \in Dis : \A p \in Dis :
        (IsChildOf(s, p) /\ Has(registers[s], <<"v">>))
           => /\ Got(s, <<"v">>) = registers[s][<<"v">>]
              /\ Exposes(p, <<"v">>)
                    => Got(s, diName[p] \o <<"v">>) = registers[p][<<"v">>]

\* the two keys under which injector i registers itself
SelfKeys(i) == {<<"d", "i">>, diName[i] \o <<"d", "i">>}

\* what get(key, true) of injector i returns
GotPublic(i, key) == DiGet(Heap, i, key, TRUE, "undefined", 1).val

\* C6: in the state a creation leaves, get("di") and get(<its name>"di") of
\* the new injector return the injector itself and neither entry is public;
\* an own entry is handed out to a publicOnly lookup exactly when it
\* has been marked public; an importer without an own entry gets null for
\* <name>"di" while nobody it looks into has marked it public; and an own
\* entry becomes public only in a step in which the injector itself marks
\* "di" public, which makes both entries public.
C6_SelfRegistered ==
    /\ [](last.call.op \in {"diFactory", "newChild"} =>
            /\ last.ret = DiRef(Len(diName))
            /\ \A key \in SelfKeys(Len(diName)) :
                  /\ Got(Len(diName), key) = DiRef(Len(diName))
                  /\ key \notin public[Len(diName)]
                  /\ GotPublic(Len(diName), key) # DiRef(Len(diName)))
    /\ [](\A i \in Dis : \A key \in SelfKeys(i) :
            /\ Got(i, key) = DiRef(i)
            /\ (GotPublic(i, key) = DiRef(i)) <=> (key \in public[i])
            /\ \A b \in Dis :
                  (/\ InSeq(imports[b], i)
                   /\ ~Has(registers[b], key)
                   /\ \A x \in Reach(b) : ~Exposes(x, key))
                     => Got(b, key) = Null)
    /\ [][ \A i \in Dis : \A key \in SelfKeys(i) :
             (key \notin public[i] /\ key \in public'[i]) =>
                /\ last'.call.op = "public"
                /\ last'.call.di = i
                /\ toLowerCase(Sanitize(last'.call.name)) = <<"d", "i">>
                /\ SelfKeys(i) \subseteq public'[i]
         ]_vars

\* C6 witness: a child made by newChild resolves "di" and <its name>"di" to itself
C6_Witness ==
    /\ last.call.op = "newChild"
    /\ Len(diName) = 2
    /\ diName[2] = <<"b">>
    /\ Got(2, <<"d", "i">>) = DiRef(2)
    /\ Got(2, <<"b", "d", "i">>) = DiRef(2)
    /\ public[2] = {}

\* C11: an invoke whose target is not a function reports exactly one error,
\* with code 102 (NOT_A_FUNCTION), thrown or handed to the error callback (then
\* the call returns null); it applies no function, runs no factory, and
\* leaves the registers, public flags, import lists and import caches of
\* every injector as they were.
C11_NotAFunction ==
    [][ (last'.call.op = "invoke" /\ ~IsFunction(last'.call.arg)) =>
          /\ Failed(last')
          /\ last'.thrown = (last'.call.onError # "function")
          /\ Len(last'.errs) = (IF last'.call.onError = "function" THEN 1 ELSE 0)
          /\ ~last'.thrown => last'.ret = Null
          /\ Reported(last').code = 102
          /\ Reported(last').di = diName[last'.call.di]
          /\ last'.log = <<>>
          /\ registers' = registers
          /\ public' = public
          /\ imports' = imports
          /\ importCache' = importCache
      ]_vars

\* C11 witness: invoke(false, custom, onError) handed error 102 to the
\* callback while a factory that was never run is registered
C11_Witness ==
    /\ last.call.op = "invoke"
    /\ last.call.arg = False
    /\ last.call.custom.truthy
    /\ last.call.onError = "function"
    /\ ~last.thrown /\ last.ret = Null
    /\ Len(last.errs) = 1 /\ last.errs[1].code = 102
    /\ \E key \in DOMAIN registers[1] : registers[1][key].t = "factory"

\* C12: a require(name, onError) made in a state in which get(name) returns
\* a value other than null returns that value, reports no error and leaves
\* the registers as that get leaves them; made in a state in which get(name)
\* returns null it reports an error with code 103 (DEPENDENCY_NOT_FOUND),
\* thrown without an error callback and otherwise handed to the callback,
\* the call then returning null.
C12_RequireAsGet ==
    [][ last'.call.op = "require" =>
          LET c == last'.call
              g == DiGet(Heap, c.di, c.name, FALSE, "undefined", 1)
          IN  ~g.thrown =>
                 IF g.val # Null
                 THEN /\ ~Failed(last')
                      /\ last'.ret = g.val
                      /\ registers' = g.h.reg
                      /\ last'.log = g.h.log
                 ELSE /\ Failed(last')
                      /\ last'.thrown = (c.onError # "function")
                      /\ Len(last'.errs) = (IF c.onError = "function" THEN 1 ELSE 0)
                      /\ ~last'.thrown => last'.ret = Null
                      /\ Reported(last').code = 103
                      /\ Reported(last').detail = c.name
      ]_vars

\* C12 witness: require of an unregistered name handed error 103 to the
\* callback and returned null
C12_Witness ==
    /\ last.call.op = "require"
    /\ last.call.onError = "function"
    /\ ~Has(registers[last.call.di], toLowerCase(last.call.name))
    /\ ~last.thrown /\ last.ret = Null
    /\ Len(last.errs) = 1 /\ last.errs[1].code = 103

\* C13: every invoke that fails hands its error to the error callback, throws
\* nothing (but for an exhausted call stack) and returns null when a callback
\* was supplied, and throws the error when none was.
C13_ErrorPropagation ==
    [][ (last'.call.op = "invoke" /\ Failed(last')) =>
          IF last'.call.onError = "function"
          THEN \/ last'.thrown /\ last'.err = RangeError
               \/ ~last'.thrown /\ last'.ret = Null /\ last'.errs # <<>>
          ELSE last'.thrown /\ last'.errs = <<>>
      ]_vars

\* C14: di.callback itself applies no function, reports no error and changes
\* no registry or cache, whatever fn is; every call of the wrapper it
\* returned has the outcome and the effect an invoke of the same fn, custom
\* and onError has in the state of the call: the same returned value or
\* error, the same function applications and the same registers, so that it
\* sees what was registered after the wrapper was made.
C14_CallbackDeferred ==
    [][ /\ last'.call.op = "callback" =>
              /\ ~Failed(last')
              /\ last'.log = <<>>
              /\ last'.ret.t = "wrapper"
              /\ registers' = registers
              /\ importCache' = importCache
        /\ last'.call.op = "wrapper" =>
              LET w == last'.call.arg
                  r == DiInvoke(Heap, w.di, w.fn, w.custom, w.onError, 1)
              IN  /\ last'.thrown = r.thrown
                  /\ last'.ret = r.val
                  /\ last'.err = r.err
                  /\ last'.errs = r.h.errs
                  /\ last'.log = r.h.log
                  /\ registers' = r.h.reg
                  /\ importCache' = r.h.cache
      ]_vars

\* C14 witness: a wrapper made before v was registered was called after and
\* handed fn the value of v
C14_Witness ==
    /\ last.call.op = "wrapper"
    /\ last.call.arg.fn = Fn("fV")
    /\ ~Has(last.call.arg.made, <<"v">>)
    /\ ~Failed(last)
    /\ last.log = <<[fn |-> "fV", args |-> <<Num(2)>>, depth |-> 1]>>
    /\ last.ret = Apply("fV", <<Num(2)>>)

\* C15: mapInvoke(dis, fn), when invoking fn against the injectors of dis one
\* after the other fails for none, returns an array as long as dis whose
\* i-th element is what dis[i].invoke(fn) returns, and applies fn once per
\* element of dis, in order.
C15_MapInvoke ==
    [][ last'.call.op = "mapInvoke" =>
          LET dis == last'.call.arg.dis
              fn == last'.call.arg.fn
              each == InvokeEach(Heap, dis, fn, 1, <<>>)
          IN  ~each.thrown =>
                 /\ ~Failed(last')
                 /\ last'.ret.t = "array"
                 /\ Len(last'.ret.items) = Len(dis)
                 /\ last'.ret = each.val
                 /\ Len(OwnCalls(last')) = Len(dis)
                 /\ registers' = each.h.reg
      ]_vars

\* the places in the import list of b of the injectors that expose key
ExposingAt(b, key) == {k \in 1..Len(imports[b]) : Exposes(imports[b][k], key)}

\* the first injector, in import-list order, of b that exposes key
FirstExposing(b, key) ==
    imports[b][CHOOSE k \in ExposingAt(b, key) : \A j \in ExposingAt(b, key) : k <= j]

\* C16: in every state, for an injector without a local entry under a key
\* that one of its imports exposes, get returns the public value of the
\* first injector of its import list that exposes the key.
C16_FirstImportWins ==
    \A b \in Dis : \A key \in {<<"v">>} :
        (~Has(registers[b], key) /\ ExposingAt(b, key) # {})
           => Got(b, key) = registers[FirstExposing(b, key)][key]


\* C17: an import step that lengthens the import list of an injector leaves
\* its import cache empty, and one that appends nothing leaves the cache as it
\* was; and when the injector held, for a key without local entry, the value
\* of the first of its imports that exposes the key in its cache, then after
\* an import that appends further injectors (exposing the key or not) get
\* returns that same value.
C17_ImportClearsCache ==
    [][\A i \in Dis :
         (last'.call.op = "import" /\ last'.call.di = i) =>
            /\ (Len(imports'[i]) > Len(imports[i])) => importCache'[i] = EmptyMap
            /\ (imports'[i] = imports[i]) => importCache'[i] = importCache[i]
            /\ \A key \in {<<"v">>} :
                  (/\ Len(imports'[i]) > Len(imports[i])
                   /\ ~Has(registers[i], key)
                   /\ Has(importCache[i], key)
                   /\ ExposingAt(i, key) # {}
                   /\ importCache[i][key] = registers[FirstExposing(i, key)][key])
                     => Got(i, key)' = importCache[i][key]]_vars

\* injector 3 has just imported injector 2, which exposes v = 2, after
\* injector 1, which exposes v = 1, and its import cache is empty
C17_Witness ==
    /\ last.call.op = "import" /\ last.call.di = 3
    /\ InSeq(last.call.arg.items, 2)
    /\ imports[3] = <<1, 2>>
    /\ Exposes(1, <<"v">>) /\ registers[1][<<"v">>] = Num(1)
    /\ Exposes(2, <<"v">>) /\ registers[2][<<"v">>] = Num(2)
    /\ importCache[3] = EmptyMap
    /\ Got(3, <<"v">>) = Num(1)


\* C18: no import cache ever holds null; a get that returns null for a key
\* without local entry leaves the injector's import cache without that key;
\* value() and public() leave every import cache as it was; and when no
\* import of B exposes a key, B has no local entry and get returns null, a
\* value() or public() of an import A of B after which A exposes the key
\* makes B.get return A's value.
C18_NullNotCached ==
    /\ [](\A b \in Dis : \A key \in DOMAIN importCache[b] :
             importCache[b][key] # Null)
    /\ [][\A b \in Dis :
            /\ (/\ last'.call.op = "get" /\ last'.call.di = b
                /\ ~last'.thrown /\ last'.ret = Null
                /\ ~Has(registers[b], toLowerCase(last'.call.name)))
                  => ~Has(importCache'[b], toLowerCase(last'.call.name))
            /\ (last'.call.op \in {"value", "public"}) =>
                  /\ importCache' = importCache
                  /\ \A a \in Dis : \A key \in {<<"v">>} :
                        (/\ last'.call.di = a
                         /\ InSeq(imports[b], a)
                         /\ ~Has(registers[b], key)
                         /\ ExposingAt(b, key) = {}
                         /\ Got(b, key) = Null
                         /\ Exposes(a, key)')
                           => Got(b, key)' = registers'[a][key]]_vars

\* an import of injector 3 has just marked v public, injector 3 has nothing
\* cached, and get on injector 3 returns the import's value
C18_Witness ==
    /\ last.call.op = "public"
    /\ InSeq(imports[3], last.call.di)
    /\ ExposingAt(3, <<"v">>) = {CHOOSE k \in 1..Len(imports[3]) : imports[3][k] = last.call.di}
    /\ ~Has(registers[3], <<"v">>)
    /\ importCache[3] = EmptyMap
    /\ Got(3, <<"v">>) = registers[last.call.di][<<"v">>]


\* the place of the first occurrence of x in seq
FirstIndex(seq, x) == CHOOSE k \in 1..Len(seq) : seq[k] = x /\ \A j \in 1..(k - 1) : seq[j] # x

\* seq is the beginning of longer
IsPrefix(seq, longer) ==
    Len(seq) <= Len(longer) /\ \A k \in 1..Len(seq) : longer[k] = seq[k]

\* C19: in every state no import list holds an injector twice or the
\* injector it belongs to; an injector constructed with an imports argument
\* holds its named, distinct members other than itself in the order of their
\* first occurrence in the argument, at the head of its list; every step
\* leaves each old import list as the beginning of the new one; and the
\* entries an import step appends stand in the order of their first
\* occurrence in its argument.
C19_ImportListOrdered ==
    /\ [](\A i \in Dis :
            /\ \A k \in 1..Len(imports[i]) :
                  /\ imports[i][k] # i
                  /\ \A j \in 1..Len(imports[i]) : imports[i][j] = imports[i][k] => j = k
            /\ \A x \in Dis, y \in Dis :
                  (/\ InSeq(importsArg[i], x) /\ InSeq(importsArg[i], y)
                   /\ x # i /\ y # i /\ diName[x] # <<>> /\ diName[y] # <<>>
                   /\ FirstIndex(importsArg[i], x) < FirstIndex(importsArg[i], y))
                     => /\ InSeq(imports[i], x) /\ InSeq(imports[i], y)
                        /\ FirstIndex(imports[i], x) < FirstIndex(imports[i], y)
                        /\ FirstIndex(imports[i], y) <= Len(importsArg[i]))
    /\ [][\A i \in Dis :
            /\ IsPrefix(imports[i], imports'[i])
            /\ (last'.call.op = "import" /\ last'.call.di = i) =>
                  \A k \in (Len(imports[i]) + 1)..Len(imports'[i]) :
                     /\ InSeq(last'.call.arg.items, imports'[i][k])
                     /\ \A j \in (Len(imports[i]) + 1)..Len(imports'[i]) :
                           j < k => FirstIndex(last'.call.arg.items, imports'[i][j])
                                      < FirstIndex(last'.call.arg.items, imports'[i][k])]_vars

\* injector 3 has just been handed a list that names injector 2 before
\* injector 1, itself or an entry twice, and holds both, 2 before 1
C19_Witness ==
    /\ last.call.op = "import" /\ last.call.di = 3
    /\ Len(last.call.arg.items) = 2
    /\ last.call.arg.items[1] \in {2, 3}
    /\ imports[3] = <<2, 1>>


\* C20: after an import step of an injector, its import list holds every
\* injector of the imported list other than itself, whatever that injector's
\* name, and get returns a non-null value for every key without local entry
\* that an injector of the imported list exposes with a non-null value.
C20_ImportAppendsAll ==
    /\ [][\A i \in Dis :
            (last'.call.op = "import" /\ last'.call.di = i) =>
               \A k \in 1..Len(last'.call.arg.items) :
                  last'.call.arg.items[k] # i => InSeq(imports'[i], last'.call.arg.items[k])]_vars
    /\ [](last.call.op = "import" =>
            \A k \in 1..Len(last.call.arg.items) : \A key \in {<<"v">>} :
               (/\ last.call.arg.items[k] # last.call.di
                /\ ~Has(registers[last.call.di], key)
                /\ Exposes(last.call.arg.items[k], key)
                /\ registers[last.call.arg.items[k]][key] # Null)
                  => Got(last.call.di, key) # Null)

\* C21: in the state getImportNames leaves, the returned array holds the
\* names of the injectors of the injector's import list, one for each entry
\* and in the order of the list.
C21_ImportNames ==
    last.call.op = "getImportNames"
       => last.ret = Array(NamesOf(imports[last.call.di], 1))

\* C22: in the state newChild leaves, the import list of the new injector is
\* the parent, then the parent's imports in their order, then the injectors
\* handed in, each injector once.
C22_ChildImports ==
    last.call.op = "newChild" =>
       LET p == last.call.di
           i == Len(diName)
           extra == Tail(importsArg[i])
       IN  imports[i] = ImportEach(<<>>, <<p>> \o imports[p] \o extra, i, diName, 1)

\* the places of the lines that open the section of an injector called name
SectionsOf(lines, name) ==
    {k \in 1..Len(lines) : lines[k].kind \in {"own", "inherited"} /\ lines[k].name = name}

\* C23: in the state a showDependencies call leaves, whatever the import
\* graph, the call has returned without exhausting the stack, the lines
\* handed to fn open at most one section for each injector name, a call on an
\* injector whose name is in the processed object has not called fn, and any
\* other call has called fn with the injector's own section first.
C23_ShowTerminates ==
    last.call.op = "showDependencies" =>
       /\ ~last.thrown
       /\ \A j \in Dis : Cardinality(SectionsOf(last.ret.lines, diName[j])) <= 1
       /\ (diName[last.call.di] \in last.call.arg.processed)
             => ~last.ret.called /\ last.ret.lines = <<>>
       /\ (diName[last.call.di] \notin last.call.arg.processed)
             => /\ last.ret.called
                /\ SectionsOf(last.ret.lines, diName[last.call.di]) \in {{1}, {3}}

\* injectors 1 and 3 import each other, and a showDependencies of injector
\* 1 that visits its imports has rendered both of them
C23_Witness ==
    /\ last.call.op = "showDependencies" /\ last.call.di = 1
    /\ last.call.arg.lodash = 3 /\ last.call.arg.processed = {}
    /\ InSeq(imports[1], 3) /\ InSeq(imports[3], 1)
    /\ ~last.thrown
    /\ SectionsOf(last.ret.lines, diName[1]) # {}
    /\ SectionsOf(last.ret.lines, diName[3]) # {}

\* the registry of injector i had name never been registered in it
Unregistered(i, name) ==
    [key \in DOMAIN registers[i] \ {BareKey(name), PrefixedKey(diName[i], name)}
        |-> registers[i][key]]

\* what the client observes of a call that ends as r
Outcome(r) == [thrown |-> r.thrown, ret |-> r.val, err |-> r.err, errs |-> r.h.errs,
               log |-> r.h.log]

\* C24: in every state, for an injector that holds null under a name,
\* get, require and the invocation of a function with that parameter have
\* the outcome they have when the injector has no entry under the name:
\* returned value, thrown error, errors handed to the callback and functions
\* applied are the same.
C24_NullAsAbsent ==
    \A i \in Dis : \A name \in {<<"v">>} :
       (Has(registers[i], BareKey(name)) /\ registers[i][BareKey(name)] = Null) =>
          LET absent == [Heap EXCEPT !.reg[i] = Unregistered(i, name)]
          IN  /\ Outcome(DiGet(Heap, i, name, FALSE, "undefined", 1))
                    = Outcome(DiGet(absent, i, name, FALSE, "undefined", 1))
              /\ \A onError \in {"undefined", "function"} :
                    /\ Outcome(DiRequire(Heap, i, name, onError))
                          = Outcome(DiRequire(absent, i, name, onError))
                    /\ Outcome(DiInvoke(Heap, i, Fn("fV"), NoCustom, onError, 1))
                          = Outcome(DiInvoke(absent, i, Fn("fV"), NoCustom, onError, 1))

\* C25: a get or require that applies the factory function of an entry finds
\* the factory under both keys of the entry: once the function has been
\* applied through one key (and its result stored), no lookup through the
\* other key applies it again.
C25_FactoryOncePerEntry ==
    [][\A i \in Dis :
         (/\ last'.call.op \in {"get", "require"} /\ last'.call.di = i
          /\ Has(registers[i], toLowerCase(last'.call.name))
          /\ registers[i][toLowerCase(last'.call.name)].t = "factory"
          /\ Runs(last'.log, registers[i][toLowerCase(last'.call.name)].fn, 2) # <<>>)
            => \A other \in DOMAIN registers[i] :
                  (\/ other = diName[i] \o toLowerCase(last'.call.name)
                   \/ toLowerCase(last'.call.name) = diName[i] \o other)
                     => registers[i][other] = registers[i][toLowerCase(last'.call.name)]]_vars

\* C26: no step removes a key from the registry of an injector or a name
\* from its list of names: registrations, public(), import(), get, require,
\* invocations, callback() and the calls of its wrappers only add keys or
\* replace what a key holds.
C26_RegistryGrows ==
    [][\A i \in Dis :
          /\ DOMAIN registers[i] \subseteq DOMAIN registers'[i]
          /\ names[i] \subseteq names'[i]]_vars

\* a lookup from an importer has just replaced the factory that injector 2
\* holds under x by its result, null included, and the key is still there
C26_Witness ==
    /\ last.call.op \in {"get", "require", "invoke", "wrapper"}
    /\ last.call.di = 3
    /\ last.log # <<>>
    /\ Has(registers[2], <<"x">>)
    /\ registers[2][<<"x">>] = Null

\* C27: a get, require, invocation or wrapper call on an injector B leaves,
\* in every other injector A, the keys of the registry, the public flags, the
\* names and the import list as they were; an entry of A that holds something
\* else afterwards held a factory before, and the import cache of A keeps
\* what it held.
C27_ImportsReadOnly ==
    [][\A b \in Dis :
         (last'.call.op \in {"get", "require", "invoke", "wrapper"} /\ last'.call.di = b) =>
            \A a \in Dis \ {b} :
               /\ DOMAIN registers'[a] = DOMAIN registers[a]
               /\ public'[a] = public[a]
               /\ names'[a] = names[a]
               /\ imports'[a] = imports[a]
               /\ \A key \in DOMAIN registers[a] :
                     registers'[a][key] # registers[a][key] => registers[a][key].t = "factory"
               /\ \A key \in DOMAIN importCache[a] :
                     Has(importCache'[a], key) /\ importCache'[a][key] = importCache[a][key]]_vars

\* a lookup on injector 3 has just gone through injector 2, whose factory x
\* was replaced by its result and whose import cache now holds v from
\* injector 1
C27_Witness ==
    /\ last.call.op \in {"get", "require", "invoke", "wrapper"}
    /\ last.call.di = 3
    /\ InSeq(imports[3], 2) /\ InSeq(imports[2], 1)
    /\ last.log # <<>>
    /\ Has(registers[2], <<"x">>) /\ registers[2][<<"x">>].t = "returned"
    /\ Has(importCache[2], <<"v">>)
    /\ ~Has(registers[2], <<"v">>)

\* C28: in the state register(name).factory(fn).get() leaves, the call has
\* returned without an error, the factory function was applied exactly once
\* if its parameters resolve, and the value returned is what it returned.
C28_BuilderGet ==
    last.call.op = "factoryGet" =>
       /\ ~last.thrown
       /\ LET runs == Runs(last.log, last.call.arg.fn, 2)
          IN  (\A k \in 1..Len(getParameterNames(last.call.arg.fn)) :
                  LET key == toLowerCase(getParameterNames(last.call.arg.fn)[k])
                  IN  Has(registers[last.call.di], key)
                         /\ registers[last.call.di][key] # Null)
                 => /\ Len(runs) = 1
                    /\ last.ret = Apply(last.call.arg.fn, runs[1].args)

\* the parameters of the factory function f that have no entry in injector i
MissingOf(i, f) ==
    {k \in 1..Len(getParameterNames(f)) :
        ~Has(registers[i], toLowerCase(getParameterNames(f)[k]))}

\* C29: a require(name, onError) with an error callback, of a key that
\* holds a factory of which a parameter has no entry while its other
\* parameters hold plain values, hands the callback exactly two errors, first
\* 103 "could not inject" naming the missing parameters, then 103 "required,
\* but not registered" naming the required name; it throws nothing, applies no
\* function and returns null.
C29_RequireBrokenFactory ==
    [][\A i \in Dis :
         (/\ last'.call.op = "require" /\ last'.call.di = i
          /\ last'.call.onError = "function"
          /\ Has(registers[i], toLowerCase(last'.call.name))
          /\ registers[i][toLowerCase(last'.call.name)].t = "factory"
          /\ MissingOf(i, registers[i][toLowerCase(last'.call.name)].fn) # {}
          /\ \A k \in 1..Len(getParameterNames(registers[i][toLowerCase(last'.call.name)].fn)) :
                LET key == toLowerCase(
                              getParameterNames(registers[i][toLowerCase(last'.call.name)].fn)[k])
                IN  Has(registers[i], key) => registers[i][key].t \notin {"factory", "null"})
            => /\ ~last'.thrown
               /\ last'.ret = Null
               /\ last'.log = <<>>
               /\ Len(last'.errs) = 2
               /\ last'.errs[1].code = 103 /\ last'.errs[1].cause = "could not inject"
               /\ last'.errs[1].detail
                     = Join([k \in 1..Cardinality(MissingOf(i,
                                   registers[i][toLowerCase(last'.call.name)].fn)) |->
                               getParameterNames(
                                  registers[i][toLowerCase(last'.call.name)].fn)[
                                     CHOOSE m \in MissingOf(i,
                                        registers[i][toLowerCase(last'.call.name)].fn) :
                                        Cardinality({n \in MissingOf(i,
                                           registers[i][toLowerCase(last'.call.name)].fn) :
                                              n <= m}) = k]],
                            <<",", " ">>)
               /\ last'.errs[2].code = 103
               /\ last'.errs[2].cause = "required, but not registered"
               /\ last'.errs[2].detail = last'.call.name]_vars

\* a require with error callback has just been handed the two errors of a
\* factory with a missing parameter
C29_Witness ==
    /\ last.call.op = "require" /\ last.call.onError = "function"
    /\ ~last.thrown /\ last.ret = Null
    /\ Len(last.errs) = 2
    /\ last.errs[1].cause = "could not inject"
    /\ last.errs[2].cause = "required, but not registered"
    /\ Has(registers[last.call.di], toLowerCase(last.call.name))
    /\ registers[last.call.di][toLowerCase(last.call.name)] = Null

\* C30: a di.file step on a file that cannot be loaded reports 101 and
\* leaves the registry as it was; on a file that exports anything but a
\* function it reports 102 and leaves the registry as it was; in both cases
\* the error is thrown without error callback and else handed to it, the call
\* returning null; on a file that exports a function the step has the outcome
\* and the effect of invoking that function with the same override map and
\* error callback.
C30_File ==
    [][last'.call.op = "file" =>
         LET c == last'.call
         IN  IF c.arg = Unloadable \/ ~IsFunction(c.arg)
             THEN /\ Failed(last')
                  /\ last'.thrown = (c.onError # "function")
                  /\ Len(last'.errs) = (IF c.onError = "function" THEN 1 ELSE 0)
                  /\ ~last'.thrown => last'.ret = Null
                  /\ Reported(last').code = (IF c.arg = Unloadable THEN 101 ELSE 102)
                  /\ Reported(last').di = diName[c.di]
                  /\ last'.log = <<>>
                  /\ registers' = registers
             ELSE LET r == DiInvoke(Heap, c.di, c.arg, c.custom, c.onError, 1)
                  IN  /\ Outcome(r) = [thrown |-> last'.thrown, ret |-> last'.ret,
                                       err |-> last'.err, errs |-> last'.errs,
                                       log |-> last'.log]
                      /\ registers' = r.h.reg
                      /\ importCache' = r.h.cache]_vars

\* a normalised name: empty, or a lower-case letter followed by lower-case
\* letters and digits
IsNormalised(s) ==
    /\ \A k \in 1..Len(s) : IsLower(s[k]) \/ s[k] \in Digits
    /\ s # <<>> => IsLower(s[1])

\* C31: the normalisation of injector names and of names passed to register
\* removes every character outside [a-zA-Z0-9], then a leading run of digits,
\* then lower-cases: for every raw name the result is defined, is empty or a
\* letter followed by [a-z0-9], keeps the alphanumeric characters that follow
\* the first letter in their order, and is its own normalisation;
\* '123f456{(]´äb' becomes 'f456b'.  The name of every injector and every key a
\* registration writes are results of it.
C31_Normalisation ==
    /\ \A raw \in RawNames :
          LET kept == StripLimitCharacters(raw)
              out == Sanitize(raw)
          IN  /\ out \in Seq(Digits \cup {LowerChars[k] : k \in 1..Len(LowerChars)})
              /\ IsNormalised(out)
              /\ Sanitize(out) = out
              /\ \A k \in 1..Len(kept) : IsAlnum(kept[k])
              /\ Len(kept) = Cardinality({k \in 1..Len(raw) : IsAlnum(raw[k])})
              /\ \E n \in 0..Len(kept) :
                    /\ \A k \in 1..n : kept[k] \in Digits
                    /\ n < Len(kept) => kept[n + 1] \notin Digits
                    /\ out = [k \in 1..(Len(kept) - n) |-> LowerChar(kept[n + k])]
    /\ Sanitize(<<"1", "2", "3", "f", "4", "5", "6", "{", "(", "]", "´", "ä", "b">>)
          = <<"f", "4", "5", "6", "b">>
    /\ \A i \in Dis : IsNormalised(diName[i])
    /\ (last.call.op = "diFactory" /\ last.call.name = <<"1", "A", "-">>)
          => diName[1] = <<"a">>
    /\ last.call.op = "value" =>
          LET i == last.call.di
              out == Sanitize(last.call.name)
          IN  /\ IsNormalised(out)
              /\ Has(registers[i], out) /\ registers[i][out] = last.call.arg
              /\ Has(registers[i], diName[i] \o out)
              /\ out \in names[i]

\* C31 witness: a value was registered under the raw name "-1V-", which
\* normalises to "v"
C31_Witness ==
    /\ last.call.op = "value"
    /\ last.call.name = <<"-", "1", "V", "-">>
    /\ Has(registers[1], <<"v">>)
    /\ diName[1] = <<"a">>

\* C32 as claimed: registration and lookup normalise alike: after
\* register(r).value(v) with a value v other than null, get(r) with the same
\* raw name r returns v
C32_SameNormalisation ==
    (last.call.op = "value" /\ last.call.arg # Null) =>
       LET r == DiGet(Heap, last.call.di, last.call.name, FALSE, "undefined", 1)
       IN  ~r.thrown /\ r.val = last.call.arg

\* C33 as claimed: the import cache is transparent: in every state get(n) on
\* an injector yields what it yields without the import cache, that is from
\* the local registry and then from the first import, in order, whose current
\* public n is not null
C33_CacheTransparent ==
    \A i \in Dis : \A n \in TreeGetNames \cup {<<"x", "v">>} :
       Seen(DiGet(Heap, i, n, FALSE, "undefined", 1))
          = Seen(DiGet([Heap EXCEPT !.cache = [k \in Dis |-> EmptyMap]],
                       i, n, FALSE, "undefined", 1))

\* C34 as claimed: get(n) terminates on every import graph, cycles included:
\* no get exhausts the call stack, and a get on an injector without a local n
\* from which no injector that exposes n can be reached returns null
C34_GetTerminates ==
    last.call.op = "get" =>
       LET i == last.call.di
           key == toLowerCase(last.call.name)
       IN  /\ ~(last.thrown /\ last.err = RangeError)
           /\ (~Has(registers[i], key) /\ \A j \in Reach(i) : ~Exposes(j, key))
                 => ~last.thrown /\ last.ret = Null

\* C35 as claimed: resolution terminates when factories depend on each other
\* cyclically: a get of a key that holds a factory ends with a value or with a
\* dependency-injection error, thrown or handed to the error callback, never
\* with an exhausted call stack, and applies no factory function twice
C35_FactoryCycleTerminates ==
    last.call.op = "get" =>
       /\ ~(last.thrown /\ last.err = RangeError)
       /\ last.thrown => last.err.code \in {NOT_A_FUNCTION, DEPENDENCY_NOT_FOUND}
       /\ \A f \in FnIds : Len(SelectSeq(last.log, LAMBDA e : e.fn = f)) <= 1

\* C36 as claimed: a failed factory resolution leaves the entry in place and
\* is recoverable: a get or require of a key that holds a factory of which a
\* parameter has no entry, while its other parameters hold plain values,
\* fails, by throwing or through the error callback, and leaves the factory
\* under its key; a get after the missing parameters were registered then
\* applies the factory function once and returns its result
C36_FailedFactoryRecoverable ==
    [][\A i \in Dis :
         LET key == toLowerCase(last'.call.name) IN
         (/\ last'.call.op \in {"get", "require"} /\ last'.call.di = i
          /\ Has(registers[i], key)
          /\ registers[i][key].t = "factory"
          /\ MissingOf(i, registers[i][key].fn) # {}
          /\ \A k \in 1..Len(getParameterNames(registers[i][key].fn)) :
                LET p == toLowerCase(getParameterNames(registers[i][key].fn)[k])
                IN  Has(registers[i], p) => registers[i][p].t \notin {"factory", "null"})
            => LET f == registers[i][key].fn
                   missing == {toLowerCase(getParameterNames(f)[m]) : m \in MissingOf(i, f)}
                   later == [k \in DOMAIN registers'[i] \cup missing |->
                                IF k \in missing THEN Num(1) ELSE registers'[i][k]]
                   r == DiGet([reg |-> [registers' EXCEPT ![i] = later],
                               cache |-> importCache', errs |-> <<>>, log |-> <<>>],
                              i, last'.call.name, FALSE, "undefined", 1)
               IN  /\ Failed(last')
                   /\ last'.log = <<>>
                   /\ registers'[i][key] = registers[i][key]
                   /\ ~r.thrown
                   /\ Len(Runs(r.h.log, f, 2)) = 1
                   /\ r.val = Apply(f, Runs(r.h.log, f, 2)[1].args)]_vars

\* C37 as claimed: public entries are reachable transitively: when C imports
\* only B and B imports only A, a public entry n of A is what C.get(n) returns
\* whenever C has no local n and B has no public local n, whether or not B
\* holds a private n
C37_TransitivePublic ==
    \A a \in Dis, b \in Dis, c \in Dis :
       (/\ imports[c] = <<b>> /\ imports[b] = <<a>>
        /\ Exposes(a, <<"v">>)
        /\ ~Has(registers[c], <<"v">>)
        /\ ~Exposes(b, <<"v">>))
          => Got(c, <<"v">>) = registers[a][<<"v">>]

\* C38 as claimed: a factory registered in injector P resolves its parameters
\* against P, whichever injector requests it: a get of x on an importer C that
\* runs the public factory x of P applies the function once to what P's own
\* get yields for the parameter, fails when P's get yields nothing, whatever C
\* holds under that name, and stores the result in P; and P and every
\* importer of P obtain the stored result without another execution.
C38_FactoryScope ==
    /\ [][\A p \in Dis, c \in Dis :
            (/\ last'.call.op = "get" /\ last'.call.di = c
             /\ imports[c] = <<p>>
             /\ ~Has(registers[c], <<"x">>) /\ ~Has(importCache[c], <<"x">>)
             /\ Exposes(p, <<"x">>) /\ registers[p][<<"x">>].t = "factory")
               => LET f == registers[p][<<"x">>].fn
                      own == DiGet(Heap, p, <<"v">>, FALSE, "undefined", 1)
                      runs == SelectSeq(last'.log, LAMBDA e : e.fn = f)
                  IN  IF own.val = Null
                      THEN /\ last'.thrown /\ last'.err.code = DEPENDENCY_NOT_FOUND
                           /\ last'.err.di = diName[p]
                           /\ runs = <<>>
                           /\ registers' = registers
                      ELSE /\ ~last'.thrown
                           /\ Len(runs) = 1
                           /\ runs[1].args = <<own.val>>
                           /\ last'.ret = Apply(f, <<own.val>>)
                           /\ registers'[p][<<"x">>] = last'.ret
       ]_vars
    /\ [](\A p \in Dis, c \in Dis :
            (/\ imports[c] = <<p>>
             /\ ~Has(registers[c], <<"x">>)
             /\ Exposes(p, <<"x">>) /\ registers[p][<<"x">>].t = "returned")
               => \A i \in {p, c} :
                     LET r == DiGet(Heap, i, <<"x">>, FALSE, "undefined", 1)
                     IN  ~r.thrown /\ r.val = registers[p][<<"x">>] /\ r.h.log = <<>>)

\* C39: visibility flags only grow: no step removes a key from the public
\* keys of an injector; a value or factory registered under a name that is
\* marked public, whether the name held an entry before or not, is what a
\* public-only lookup of the injector yields from then on (the value, or the
\* factory, which such a lookup runs), and an importer of that injector alone
\* without a local entry of the name gets a value, the new one unless it has
\* cached an earlier one.
C39_VisibilityGrows ==
    /\ [][\A i \in Dis : public[i] \subseteq public'[i]]_vars
    /\ [](\A i \in Dis :
            LET key == BareKey(last.call.name) IN
            (last.call.op \in {"value", "factory"} /\ last.call.di = i /\ key \in public[i])
               => /\ Exposes(i, key) /\ Exposes(i, diName[i] \o key)
                  /\ IF last.call.op = "value"
                     THEN /\ GotPublic(i, key) = last.call.arg
                          /\ \A c \in Dis :
                                (imports[c] = <<i>> /\ ~Has(registers[c], key))
                                   => /\ Got(c, key) # Null
                                      /\ ~Has(importCache[c], key)
                                            => Got(c, key) = last.call.arg
                     ELSE LET r == DiGet(Heap, i, key, TRUE, "undefined", 1)
                          IN  \/ r.thrown /\ r.err.code = DEPENDENCY_NOT_FOUND
                              \/ /\ ~r.thrown
                                 /\ Len(Runs(r.h.log, last.call.arg.fn, 2)) = 1
                                 /\ r.val = Apply(last.call.arg.fn,
                                                  Runs(r.h.log, last.call.arg.fn, 2)[1].args))
    /\ [][\A i \in Dis : \A key \in {<<"v">>, <<"x">>} :
            (/\ last'.call.op = "value" /\ last'.call.di = i
             /\ BareKey(last'.call.name) = key
             /\ key \in public[i] /\ ~Has(registers[i], key))
               => \A c \in Dis :
                     (imports[c] = <<i>> /\ ~Has(registers[c], key))
                        => /\ ~Has(importCache[c], key)
                           /\ Got(c, key) = Null
                           /\ Got(c, key)' = last'.call.arg]_vars

\* C39 witness: x of injector 2 was public and memoized, injector 3 got it,
\* and x has just been registered again with a value and is still exposed
C39_Witness ==
    /\ last.call.op = "value" /\ last.call.di = 2 /\ last.call.name = <<"x">>
    /\ Exposes(2, <<"x">>)
    /\ imports[3] = <<2>>
    /\ Has(importCache[3], <<"x">>) /\ importCache[3][<<"x">>].t = "returned"
    /\ GotPublic(2, <<"x">>) = Num(5)

\* C40: re-registration replaces the entry under both keys: after a value or
\* a factory is registered under n, also when n held a value, a factory or a
\* factory's memoized result before, the keys n and <injector name>n hold the
\* new entry, and get of either key returns the new value, or runs the new
\* factory and returns its result or fails as that factory fails; nothing of
\* the earlier entry is left under either key.
C40_ReRegistration ==
    /\ [](\A i \in Dis :
            (last.call.op \in {"value", "factory"} /\ last.call.di = i) =>
               \A key \in {BareKey(last.call.name), diName[i] \o BareKey(last.call.name)} :
                  LET r == DiGet(Heap, i, key, FALSE, "undefined", 1)
                  IN  IF last.call.op = "value"
                      THEN /\ registers[i][key] = last.call.arg
                           /\ ~r.thrown /\ r.val = last.call.arg /\ r.h.log = <<>>
                      ELSE /\ registers[i][key] = FactoryCallback(last.call.arg.fn, i)
                           /\ \/ r.thrown
                              \/ /\ Len(Runs(r.h.log, last.call.arg.fn, 2)) = 1
                                 /\ r.val = Apply(last.call.arg.fn,
                                                  Runs(r.h.log, last.call.arg.fn, 2)[1].args))
    /\ [][\A i \in Dis :
            (/\ last'.call.op \in {"value", "factory"} /\ last'.call.di = i
             /\ Has(registers[i], BareKey(last'.call.name)))
               => /\ registers'[i][BareKey(last'.call.name)]
                        = registers'[i][diName[i] \o BareKey(last'.call.name)]
                  /\ registers'[i][BareKey(last'.call.name)]
                        = (IF last'.call.op = "value" THEN last'.call.arg
                           ELSE FactoryCallback(last'.call.arg.fn, i))
                  /\ DOMAIN registers'[i] = DOMAIN registers[i]]_vars

\* C40 witness: v has just been registered again, with null, while x holds
\* the result a factory made from the earlier entry of v, which was 1
C40_Witness ==
    /\ last.call.op = "value" /\ last.call.name = <<"v">> /\ last.call.arg = Null
    /\ Has(registers[1], <<"x">>)
    /\ registers[1][<<"x">>] = Returned("fV", <<Num(1)>>)
    /\ Got(1, <<"v">>) = Null
    /\ Got(1, diName[1] \o <<"v">>) = Null
====
